---- MODULE Spec2Model ----
(***************************************************************************)
(* A model of apollo-agent's execution substrate:                          *)
(*   - TaskManager      (src/src/agent/task-manager.js)                    *)
(*   - the driver's use of it (src/src/tools/terminal-tool.js)             *)
(*   - MCPClientManager.callTool (src/src/mcp/serena-client.js)            *)
(*   - SymbolIndex      (src/unnamed/part_002) over KnowledgeBase          *)
(*                      (src/src/agent/knowledge-base.js)                  *)
(* JavaScript's null/undefined is the empty sequence None, a present value *)
(* x is Some(x) = <<x>>.                                                   *)
(***************************************************************************)
EXTENDS Integers, Sequences, FiniteSets, TLC

VARIABLES
    \* ---- TaskManager
    tasks,          \* this.tasks: sequence of task records, insertion order
    taskIdCounter,  \* this.taskIdCounter
    currentPlan,    \* this.currentPlan: None or Some(plan record)
    thrown,         \* the error the last TaskManager call threw, None when it returned
    returned,       \* what the last query (isComplete, getProgress) returned
    saved,          \* the object a caller got from toJSON and still holds
    issued,         \* the ids handed out since construction or the last reset
    \* ---- MCPClientManager
    clients,            \* this.clients: the server names that have a client
    serenaProjectPath,  \* this.serenaProjectPath is set
    alive,              \* the servers whose transport (child process) is open
    calls,              \* the callTool invocations in flight, per call slot
    initialized,        \* connectAll has run
    \* ---- SymbolIndex over KnowledgeBase, and the project's files
    files,          \* the live source files: None (unreadable) or Some(content)
    cache,          \* SymbolIndex.cache: filePath -> None or Some(symbolData)
    fileHashes,     \* SymbolIndex.fileHashes: filePath -> None or Some(hash)
    indexMetadata,  \* SymbolIndex.indexMetadata
    kbMemories,     \* KnowledgeBase.memories: name -> None or Some(memory)
    kbDisk,         \* the .json files under .apollo-knowledge
    ops,            \* the SymbolIndex calls in flight, per slot
    registered      \* per file, what the indexFile in effect was given

taskVars == <<tasks, taskIdCounter, currentPlan, thrown, returned, saved, issued>>

mcpVars == <<clients, serenaProjectPath, alive, calls, initialized>>

cacheVars == <<files, cache, fileHashes, indexMetadata, kbMemories, kbDisk, ops,
               registered>>

vars == <<taskVars, mcpVars, cacheVars>>

None == <<>>
Some(x) == <<x>>

\* The value of new Date() / Date.now(): the model keeps no clock, every
\* timestamp is this one token (a stamped field differs from an empty one).
Date == "Date"

\* ------------------------------------------------------------------ bounds
MaxId == 3          \* ids are handed out while taskIdCounter <= MaxId
MaxTasks == 4       \* addTask appends while the list is shorter than MaxTasks
MaxRetriesInput == 3    \* options.maxRetries ranges over 0..MaxRetriesInput
MaxFilesIndexed == 2    \* indexFile starts while filesIndexed < MaxFilesIndexed
MaxSymbolsCount == 4    \* indexFile starts while symbolsCount stays <= MaxSymbolsCount
MaxQueryTasks == 5      \* the queries are put to every task list of up to this length
HalfPlan == 8           \* ... and to a plan this long (k of 8 done: k * 12.5 percent)
LongPlan == 40          \* ... and to a plan this long (k of 40 done: k * 2.5 percent)
FanOut == 2             \* tool calls one agent-loop step has in flight at once

\* ============================================================ TaskManager

Statuses == {"pending", "in-progress", "completed", "failed", "skipped"}

\* The task lists the planner (an LLM) may hand to createPlan, and the single
\* tasks handed to addTask: a name and the dependency ids, which are whatever
\* the planner wrote, so any small set of ids.
DepChoices == {{1}}

TaskInputs == [name : {"C"}, dependencies : DepChoices]

PlanInputs ==
    {<<[name |-> "A", dependencies |-> {}],
       [name |-> "B", dependencies |-> {1}],
       [name |-> "C", dependencies |-> {1}]>>,
     <<[name |-> "A", dependencies |-> {2}],
       [name |-> "B", dependencies |-> {1}]>>,
     <<[name |-> "A", dependencies |-> {}]>>,
     <<[name |-> "A", dependencies |-> {}],
       [name |-> "B", dependencies |-> {}]>>,
     <<[name |-> "A", dependencies |-> {}],
       [name |-> "B", dependencies |-> {1}],
       [name |-> "C", dependencies |-> {2}]>>,
     <<[name |-> "A", dependencies |-> {}],
       [name |-> "B", dependencies |-> {1, 2}]>>,
     <<>>}

\* The task object of createPlan and addTask; type and priority, which no
\* method reads, are left out.
NewTask(id, spec) ==
    [id |-> id, name |-> spec.name, status |-> "pending",
     dependencies |-> spec.dependencies,
     result |-> None, error |-> None, startedAt |-> None, completedAt |-> None]

\* this.tasks.find(t => t.id === taskId): the index of the first task with
\* that id, 0 when find returns undefined.
RECURSIVE FindFrom(_, _, _)
FindFrom(ts, taskId, i) ==
    IF i > Len(ts) THEN 0
    ELSE IF ts[i].id = taskId THEN i
    ELSE FindFrom(ts, taskId, i + 1)

FindTask(ts, taskId) == FindFrom(ts, taskId, 1)

TaskInit ==
    /\ tasks = <<>>
    /\ taskIdCounter = 1
    /\ currentPlan = None
    /\ thrown = None
    /\ returned = None
    /\ saved = None
    /\ issued = {}

\* An object a caller got from toJSON holds this.tasks itself, not a copy
\* (alias), until the manager assigns this.tasks a new array; from then on it
\* holds the old array with the contents it had.
Detached ==
    IF saved # None /\ saved[1].alias
    THEN Some([saved[1] EXCEPT !.alias = FALSE, !.tasks = tasks])
    ELSE saved

\* a faulty variant: the new tasks are appended to the old list
createPlan_append(taskList) ==
    /\ taskIdCounter + Len(taskList) - 1 <= MaxId
    /\ currentPlan' = Some([id |-> Date, created |-> Date, status |-> "in-progress"])
    /\ tasks' = tasks \o
                 [i \in 1..Len(taskList) |-> NewTask(taskIdCounter + i - 1, taskList[i])]
    /\ taskIdCounter' = taskIdCounter + Len(taskList)
    /\ thrown' = None
    /\ saved' = Detached
    /\ issued' = issued \cup (taskIdCounter..(taskIdCounter + Len(taskList) - 1))
    /\ UNCHANGED returned
    /\ UNCHANGED <<mcpVars, cacheVars>>

createPlan(taskList) ==
    /\ taskIdCounter + Len(taskList) - 1 <= MaxId
    /\ currentPlan' = Some([id |-> Date, created |-> Date, status |-> "in-progress"])
    /\ tasks' = [i \in 1..Len(taskList) |-> NewTask(taskIdCounter + i - 1, taskList[i])]
    /\ taskIdCounter' = taskIdCounter + Len(taskList)
    /\ thrown' = None
    /\ saved' = Detached
    /\ issued' = issued \cup (taskIdCounter..(taskIdCounter + Len(taskList) - 1))
    /\ UNCHANGED returned
    /\ UNCHANGED <<mcpVars, cacheVars>>

addTask(task) ==
    /\ taskIdCounter <= MaxId
    /\ Len(tasks) < MaxTasks
    /\ tasks' = Append(tasks, NewTask(taskIdCounter, task))
    /\ taskIdCounter' = taskIdCounter + 1
    /\ thrown' = None
    /\ issued' = issued \cup {taskIdCounter}
    /\ UNCHANGED <<mcpVars, cacheVars>>
    /\ UNCHANGED <<currentPlan, returned, saved>>

\* The status a transition method writes, and the fields it stamps.
startTaskUpdate(t) == [t EXCEPT !.status = "in-progress", !.startedAt = Some(Date)]

completeTaskUpdate(t, result) ==
    [t EXCEPT !.status = "completed", !.completedAt = Some(Date), !.result = result]

failTaskUpdate(t, error) ==
    [t EXCEPT !.status = "failed", !.completedAt = Some(Date), !.error = error]

skipTaskUpdate(t, reason) ==
    [t EXCEPT !.status = "skipped", !.completedAt = Some(Date), !.result = reason]

\* The task list after a transition method ran on the task at index i (0: find
\* returned undefined and the method does nothing).
WithTask(i, t) == IF i = 0 THEN tasks ELSE [tasks EXCEPT ![i] = t]

startTask(taskId) ==
    LET i == FindTask(tasks, taskId) IN
    /\ tasks' = WithTask(i, IF i = 0 THEN None ELSE startTaskUpdate(tasks[i]))
    /\ thrown' = None
    /\ UNCHANGED <<mcpVars, cacheVars>>
    /\ UNCHANGED <<taskIdCounter, currentPlan, returned, saved, issued>>

completeTask(taskId, result) ==
    LET i == FindTask(tasks, taskId) IN
    /\ tasks' = WithTask(i, IF i = 0 THEN None ELSE completeTaskUpdate(tasks[i], result))
    /\ thrown' = None
    /\ UNCHANGED <<mcpVars, cacheVars>>
    /\ UNCHANGED <<taskIdCounter, currentPlan, returned, saved, issued>>

failTask(taskId, error) ==
    LET i == FindTask(tasks, taskId) IN
    /\ tasks' = WithTask(i, IF i = 0 THEN None ELSE failTaskUpdate(tasks[i], error))
    /\ thrown' = None
    /\ UNCHANGED <<mcpVars, cacheVars>>
    /\ UNCHANGED <<taskIdCounter, currentPlan, returned, saved, issued>>

skipTask(taskId, reason) ==
    LET i == FindTask(tasks, taskId) IN
    /\ tasks' = WithTask(i, IF i = 0 THEN None ELSE skipTaskUpdate(tasks[i], reason))
    /\ thrown' = None
    /\ UNCHANGED <<mcpVars, cacheVars>>
    /\ UNCHANGED <<taskIdCounter, currentPlan, returned, saved, issued>>

\* a faulty variant: some instead of every: one completed dependency is enough
DepsMet_some(ts, task) ==
    IF task.dependencies = {} THEN TRUE
    ELSE \E depId \in task.dependencies :
            LET j == FindFrom(ts, depId, 1) IN
            j # 0 /\ ts[j].status = "completed"

\* a faulty variant: the dependency's status is compared with 'complete',
\* which no task has
DepsMet_wrongStatus(ts, task) ==
    IF task.dependencies = {} THEN TRUE
    ELSE \A depId \in task.dependencies :
            LET j == FindTask(ts, depId) IN
            j # 0 /\ ts[j].status = "complete"

\* task.dependencies.every(depId => depTask && depTask.status === 'completed'),
\* short-circuited for an empty dependency list.
DepsMet(ts, task) ==
    IF task.dependencies = {} THEN TRUE
    ELSE \A depId \in task.dependencies :
            LET j == FindTask(ts, depId) IN
            j # 0 /\ ts[j].status = "completed"

\* a faulty variant: the dependencies are not looked at
IsNext_noDeps(ts, task) == task.status = "pending"

\* The predicate of getNextTask's find.
IsNext(ts, task) ==
    IF task.status # "pending" THEN FALSE ELSE DepsMet(ts, task)

\* a faulty variant: the last match instead of the first
RECURSIVE NextFrom_last(_, _)
NextFrom_last(ts, i) ==
    IF i > Len(ts) THEN 0
    ELSE LET later == NextFrom_last(ts, i + 1) IN
         IF later # 0 THEN later
         ELSE IF IsNext(ts, ts[i]) THEN i ELSE 0

RECURSIVE NextFrom(_, _)
NextFrom(ts, i) ==
    IF i > Len(ts) THEN 0
    ELSE IF IsNext(ts, ts[i]) THEN i
    ELSE NextFrom(ts, i + 1)

\* getNextTask(): the index in this.tasks of the task returned, 0 for undefined.
getNextTask == NextFrom(tasks, 1)

\* a faulty variant: the counter is left where it was
reset_keepCounter ==
    /\ tasks' = <<>>
    /\ taskIdCounter' = taskIdCounter
    /\ currentPlan' = None
    /\ thrown' = None
    /\ saved' = Detached
    /\ issued' = {}
    /\ UNCHANGED returned
    /\ UNCHANGED <<mcpVars, cacheVars>>

reset ==
    /\ tasks' = <<>>
    /\ taskIdCounter' = 1
    /\ currentPlan' = None
    /\ thrown' = None
    /\ saved' = Detached
    /\ issued' = {}
    /\ UNCHANGED returned
    /\ UNCHANGED <<mcpVars, cacheVars>>

\* ---- toJSON / fromJSON
\* JSON.stringify turns a Date into its ISO string, and JSON.parse leaves the
\* string a string.
DateString == "Date.toISOString()"

JsonStamp(stamp) == IF stamp = Some(Date) THEN Some(DateString) ELSE stamp

JsonTask(t) == [t EXCEPT !.startedAt = JsonStamp(@), !.completedAt = JsonStamp(@)]

JsonPlan(plan) ==
    IF plan = None THEN None ELSE Some([plan[1] EXCEPT !.created = DateString])

\* toJSON(): { tasks: this.tasks, taskIdCounter, currentPlan }. The caller keeps
\* the object as it is (its tasks are this.tasks, the same array), or keeps
\* its JSON text (json), which is a copy.
toJSON(json) ==
    /\ saved' =
          IF json
          THEN Some([json |-> TRUE, alias |-> FALSE,
                     tasks |-> [i \in 1..Len(tasks) |-> JsonTask(tasks[i])],
                     taskIdCounter |-> taskIdCounter,
                     currentPlan |-> JsonPlan(currentPlan)])
          ELSE Some([json |-> FALSE, alias |-> TRUE, tasks |-> <<>>,
                     taskIdCounter |-> taskIdCounter,
                     currentPlan |-> currentPlan])
    /\ thrown' = None
    /\ UNCHANGED <<tasks, taskIdCounter, currentPlan, returned, issued>>
    /\ UNCHANGED <<mcpVars, cacheVars>>

\* fromJSON(data) with the data a caller holds: this.tasks = data.tasks || [],
\* this.taskIdCounter = data.taskIdCounter || 1, this.currentPlan =
\* data.currentPlan || null. An object's tasks array becomes this.tasks (the
\* same array again); a JSON text is parsed into a fresh one.
fromJSON ==
    /\ saved # None
    /\ LET data == saved[1] IN
       /\ tasks' = IF data.alias THEN tasks ELSE data.tasks
       /\ taskIdCounter' = IF data.taskIdCounter = 0 THEN 1 ELSE data.taskIdCounter
       /\ currentPlan' = data.currentPlan
       /\ saved' = IF data.json THEN saved
                   ELSE Some([data EXCEPT !.alias = TRUE, !.tasks = <<>>])
    /\ thrown' = None
    /\ UNCHANGED <<returned, issued>>
    /\ UNCHANGED <<mcpVars, cacheVars>>

\* ---- isComplete / getProgress
\* a faulty variant: a failed task is not counted as finished
isComplete_noFailed ==
    \A i \in 1..Len(tasks) : tasks[i].status \in {"completed", "skipped"}

\* this.tasks.every(t => completed || skipped || failed)
isComplete ==
    \A i \in 1..Len(tasks) :
        \/ tasks[i].status = "completed"
        \/ tasks[i].status = "skipped"
        \/ tasks[i].status = "failed"

\* this.tasks.filter(t => t.status === status).length
RECURSIVE CountFrom(_, _, _)
CountFrom(ts, status, i) ==
    IF i > Len(ts) THEN 0
    ELSE (IF ts[i].status = status THEN 1 ELSE 0) + CountFrom(ts, status, i + 1)

CountStatus(ts, status) == CountFrom(ts, status, 1)

\* -- the arithmetic of Math.round((completed / total) * 100) in IEEE-754
\* binary64. A double is [m, e]: m its 53 significand bits, first bit first,
\* and the value is m * 2^e; zero has no bits.
SignificandBits == 53

Reverse(s) == [i \in 1..Len(s) |-> s[Len(s) + 1 - i]]

RECURSIVE BitsToInt(_)
BitsToInt(bits) ==
    IF bits = <<>> THEN 0
    ELSE 2 * BitsToInt(SubSeq(bits, 1, Len(bits) - 1)) + bits[Len(bits)]

\* bits + 1
RECURSIVE IncBits(_)
IncBits(bits) ==
    IF bits = <<>> THEN <<1>>
    ELSE IF bits[Len(bits)] = 0 THEN SubSeq(bits, 1, Len(bits) - 1) \o <<1>>
    ELSE IncBits(SubSeq(bits, 1, Len(bits) - 1)) \o <<0>>

\* a + b on bits written last bit first
RECURSIVE AddLsb(_, _, _)
AddLsb(a, b, carry) ==
    IF a = <<>> /\ b = <<>> THEN (IF carry = 1 THEN <<1>> ELSE <<>>)
    ELSE LET x == IF a = <<>> THEN 0 ELSE Head(a)
             y == IF b = <<>> THEN 0 ELSE Head(b)
             sum == x + y + carry
         IN <<sum % 2>> \o AddLsb(IF a = <<>> THEN a ELSE Tail(a),
                                  IF b = <<>> THEN b ELSE Tail(b), sum \div 2)

AddBits(a, b) == Reverse(AddLsb(Reverse(a), Reverse(b), 0))

ShiftLeft(bits, k) == bits \o [i \in 1..k |-> 0]

\* Round-to-nearest, ties-to-even, of exact bits (worth 2^e each at the last
\* bit) followed by a guard bit and a sticky flag.
RoundToNearestEven(bits, e, guard, sticky) ==
    LET up == guard = 1 /\ (sticky \/ bits[Len(bits)] = 1)
        r == IF up THEN IncBits(bits) ELSE bits
    IN IF Len(r) > Len(bits)
       THEN [m |-> SubSeq(r, 1, Len(bits)), e |-> e + 1]
       ELSE [m |-> r, e |-> e]

\* n bits of the binary expansion of r / t (r < t), and what is left over
RECURSIVE LongDivision(_, _, _, _)
LongDivision(r, t, n, bits) ==
    IF n = 0 THEN [bits |-> bits, rem |-> r]
    ELSE LET b == IF 2 * r >= t THEN 1 ELSE 0 IN
         LongDivision(2 * r - b * t, t, n - 1, Append(bits, b))

\* c * 2^z with t <= c * 2^z < 2t
RECURSIVE Normalize(_, _, _)
Normalize(c, t, z) ==
    IF c >= t THEN [n |-> c, z |-> z] ELSE Normalize(2 * c, t, z + 1)

\* completed / total, for 0 <= completed <= total and total > 0
DoubleDivide(c, t) ==
    IF c = 0 THEN [m |-> <<>>, e |-> 0]
    ELSE LET nz == Normalize(c, t, 0)
             d == LongDivision(nz.n - t, t, SignificandBits - 1, <<1>>)
             guard == IF 2 * d.rem >= t THEN 1 ELSE 0
             sticky == 2 * d.rem - guard * t # 0
         IN RoundToNearestEven(d.bits, 0 - (SignificandBits - 1) - nz.z, guard, sticky)

\* x * 100: the exact product m * 1100100b, rounded to 53 bits
DoubleTimes100(x) ==
    IF x.m = <<>> THEN x
    ELSE LET product == AddBits(ShiftLeft(x.m, 6),
                                AddBits(ShiftLeft(x.m, 5), ShiftLeft(x.m, 2)))
             extra == Len(product) - SignificandBits
             guard == product[SignificandBits + 1]
             sticky == \E i \in (SignificandBits + 2)..Len(product) : product[i] = 1
         IN RoundToNearestEven(SubSeq(product, 1, SignificandBits),
                               x.e + extra, guard, sticky)

\* Math.round of a double in [0, 2^31): the integer part plus the first
\* fraction bit (a tie goes up)
MathRound(x) ==
    IF x.m = <<>> THEN 0
    ELSE LET whole == SignificandBits + x.e   \* how many bits are left of the point
         IN IF whole < 0 THEN 0
            ELSE IF whole >= SignificandBits THEN BitsToInt(ShiftLeft(x.m, x.e))
            ELSE BitsToInt(SubSeq(x.m, 1, whole)) + x.m[whole + 1]

\* total > 0 ? Math.round((completed / total) * 100) : 0
percentage(completed, total) ==
    IF total > 0 THEN MathRound(DoubleTimes100(DoubleDivide(completed, total))) ELSE 0

getProgress ==
    [total |-> Len(tasks),
     completed |-> CountStatus(tasks, "completed"),
     failed |-> CountStatus(tasks, "failed"),
     inProgress |-> CountStatus(tasks, "in-progress"),
     pending |-> CountStatus(tasks, "pending"),
     percentage |-> percentage(CountStatus(tasks, "completed"), Len(tasks))]

\* the two queries, called
isCompleteCalled ==
    /\ returned' = Some([method |-> "isComplete", value |-> isComplete])
    /\ thrown' = None
    /\ UNCHANGED <<tasks, taskIdCounter, currentPlan, saved, issued>>
    /\ UNCHANGED <<mcpVars, cacheVars>>

getProgressCalled ==
    /\ returned' = Some([method |-> "getProgress", value |-> getProgress])
    /\ thrown' = None
    /\ UNCHANGED <<tasks, taskIdCounter, currentPlan, saved, issued>>
    /\ UNCHANGED <<mcpVars, cacheVars>>

Results == {Some("r")}
Errors == {Some("e")}
TaskIds == 1..MaxId

\* ---- the queries, put to the task lists a plan can be left in
\* A task that was taken to `status` by the transition methods.
TaskIn(id, status) ==
    LET t == NewTask(id, [name |-> "T", dependencies |-> {}]) IN
    CASE status = "pending" -> t
      [] status = "in-progress" -> startTaskUpdate(t)
      [] status = "completed" -> completeTaskUpdate(startTaskUpdate(t), Some("r"))
      [] status = "failed" -> failTaskUpdate(startTaskUpdate(t), Some("e"))
      [] status = "skipped" -> skipTaskUpdate(t, Some("r"))

\* Every list of up to MaxQueryTasks tasks in any statuses, and the plans of
\* HalfPlan and of LongPlan tasks with the first k completed, the rest pending.
QueryStatusLists ==
    UNION {[1..n -> Statuses] : n \in 0..MaxQueryTasks}
    \cup UNION {{[i \in 1..n |-> IF i <= k THEN "completed" ELSE "pending"] :
                     k \in 0..n} : n \in {HalfPlan, LongPlan}}

QueryInit ==
    /\ \E statuses \in QueryStatusLists :
          tasks = [i \in 1..Len(statuses) |-> TaskIn(i, statuses[i])]
    /\ taskIdCounter = Len(tasks) + 1
    /\ currentPlan = Some([id |-> Date, created |-> Date, status |-> "in-progress"])
    /\ thrown = None
    /\ returned = None
    /\ saved = None
    /\ issued = 1..Len(tasks)

QueryNext ==
    \/ isCompleteCalled
    \/ getProgressCalled

\* ---- a caller that saves and restores the manager
RestorePlans ==
    {<<[name |-> "A", dependencies |-> {}]>>,
     <<[name |-> "A", dependencies |-> {}],
       [name |-> "B", dependencies |-> {1}]>>}

RestoreNext ==
    \/ \E L \in RestorePlans : createPlan(L)
    \/ \E t \in TaskInputs : addTask(t)
    \/ \E json \in BOOLEAN : toJSON(json)
    \/ fromJSON
    \/ reset

\* ---- the TaskManager driven through its public methods by any caller
TaskNext ==
    \/ \E L \in PlanInputs : createPlan(L)
    \/ \E t \in TaskInputs : addTask(t)
    \/ \E id \in TaskIds : startTask(id)
    \/ \E id \in TaskIds, r \in Results : completeTask(id, r)
    \/ \E id \in TaskIds, e \in Errors : failTask(id, e)
    \/ \E id \in TaskIds, r \in Results : skipTask(id, r)
    \/ reset

\* ======================================================= MCPClientManager

Servers == {"serena", "sequential-thinking", "other"}
Tools == {"execute_shell_command", "find_symbol"}
CallSlots == {1}
OpSlots == {1}

\* The calls one step of the agent loop has in flight at once: runAgentLoop
\* awaits Promise.all over the tool calls of one response.
FanOutSlots == 1..FanOut

\* options.maxRetries and options.retryDelayMs as the caller passes them
\* (None: the option is left out)
MaxRetriesOptions == {None} \cup {Some(n) : n \in 0..MaxRetriesInput}
RetryDelayOptions == {None, Some(100)}

DefaultMaxRetries == 3
DefaultRetryDelayMs == 1000
ShellTimeoutMs == 120000
DefaultTimeoutMs == 60000

\* x || d for a numeric option: undefined and 0 are falsy
OrDefault(opt, d) == IF opt = None \/ opt = Some(0) THEN d ELSE opt[1]

\* Error messages, as sequences of the pieces the classification looks for.
NotConnected(serverName) == <<"Not connected to", serverName>>

InvokeErrors ==
    {<<"read", "ECONNRESET">>, <<"Request", "timeout">>, <<"Invalid", "arguments">>}

ConnectErrors == {<<"spawn", "ETIMEDOUT">>, <<"spawn", "ENOENT">>}

\* error.message.includes(piece)
Includes(message, piece) == \E i \in 1..Len(message) : message[i] = piece

isRetryable(message) ==
    \/ Includes(message, "fetch failed")
    \/ Includes(message, "ECONNRESET")
    \/ Includes(message, "ETIMEDOUT")
    \/ Includes(message, "timeout")
    \/ Includes(message, "disconnected")

\* a faulty variant: 2^attempt: the exponent is off by one
backoffDelay_offByOne(retryDelayMs, attempt) == retryDelayMs * 2 ^ attempt

\* retryDelayMs * Math.pow(2, attempt - 1)
backoffDelay(retryDelayMs, attempt) == retryDelayMs * 2 ^ (attempt - 1)

\* a faulty variant: attempt <= maxRetries in the first test of the catch block
catchBranch_lte(attempt, maxRetries, retryable) ==
    IF attempt <= maxRetries /\ retryable THEN "retry"
    ELSE IF attempt >= maxRetries THEN "wrap"
    ELSE "rethrow"

\* The three branches of the catch block, in the order the code tests them.
catchBranch(attempt, maxRetries, retryable) ==
    IF attempt < maxRetries /\ retryable THEN "retry"
    ELSE IF attempt >= maxRetries THEN "wrap"
    ELSE "rethrow"

IdleCall ==
    [pc |-> "idle", serverName |-> "", toolName |-> "", maxRetries |-> 0,
     retryDelayMs |-> 0, attempt |-> 0, timeout |-> 0, lastError |-> None,
     delays |-> <<>>, tried |-> 0, outcome |-> None]

McpInit ==
    /\ clients = {}
    /\ serenaProjectPath = FALSE
    /\ alive = {}
    /\ calls = [c \in FanOutSlots |-> IdleCall]
    /\ initialized = FALSE

\* connectAll(projectPath), run once by the agent's initialize before any tool
\* call: connectSerena records the project path first and the client only
\* when client.connect resolves; a failed connection is caught and reported.
connectAll(okSerena, okSequentialThinking) ==
    LET up == (IF okSerena THEN {"serena"} ELSE {})
              \cup (IF okSequentialThinking THEN {"sequential-thinking"} ELSE {}) IN
    /\ ~initialized
    /\ initialized' = TRUE
    /\ serenaProjectPath' = TRUE
    /\ clients' = up
    /\ alive' = up
    /\ UNCHANGED <<calls, taskVars, cacheVars>>

\* The server process exits. Only serena's transport has an onclose handler,
\* which drops the client and the transport from the maps.
transportClose(serverName) ==
    /\ serverName \in alive
    /\ alive' = alive \ {serverName}
    /\ clients' = IF serverName = "serena" THEN clients \ {"serena"} ELSE clients
    /\ UNCHANGED <<serenaProjectPath, calls, initialized, taskVars, cacheVars>>

\* callTool entered: the options are read and the loop starts at attempt 1
callTool(c, serverName, toolName, optMaxRetries, optRetryDelayMs) ==
    /\ initialized
    /\ calls[c].pc = "idle"
    /\ calls' = [calls EXCEPT ![c] =
          [IdleCall EXCEPT
              !.pc = "attempt", !.serverName = serverName, !.toolName = toolName,
              !.maxRetries = OrDefault(optMaxRetries, DefaultMaxRetries),
              !.retryDelayMs = OrDefault(optRetryDelayMs, DefaultRetryDelayMs),
              !.attempt = 1]]
    /\ UNCHANGED <<clients, serenaProjectPath, alive, initialized, taskVars, cacheVars>>

\* The catch block for an attempt that failed with `message`.
Caught(call, message) ==
    LET branch == catchBranch(call.attempt, call.maxRetries, isRetryable(message)) IN
    IF branch = "retry"
    THEN [call EXCEPT !.pc = "sleeping", !.lastError = Some(message),
             !.delays = Append(@, backoffDelay(call.retryDelayMs, call.attempt))]
    ELSE IF branch = "wrap"
    THEN [call EXCEPT !.pc = "done", !.lastError = Some(message),
             !.outcome = Some([kind |-> "RetriesExhausted",
                               attempts |-> call.attempt, message |-> message])]
    ELSE [call EXCEPT !.pc = "done", !.lastError = Some(message),
             !.outcome = Some([kind |-> "error", attempts |-> 0, message |-> message])]

\* client.callTool issued with the timeout of the tool's tier
Invoking(call) ==
    [call EXCEPT !.pc = "invoking",
        !.timeout = IF call.toolName = "execute_shell_command"
                    THEN ShellTimeoutMs ELSE DefaultTimeoutMs]

\* The start of one loop iteration: look the client up, reconnect if it is
\* missing, or fail with "Not connected".
attemptStart(c) ==
    LET call == [calls[c] EXCEPT !.tried = @ + 1] IN
    /\ calls[c].pc = "attempt"
    /\ IF call.serverName \in clients
       THEN calls' = [calls EXCEPT ![c] = Invoking(call)]
            /\ UNCHANGED serenaProjectPath
       ELSE IF call.serverName = "serena" /\ serenaProjectPath
       THEN calls' = [calls EXCEPT ![c] = [call EXCEPT !.pc = "connecting"]]
            /\ serenaProjectPath' = TRUE
       ELSE IF call.serverName = "sequential-thinking"
       THEN calls' = [calls EXCEPT ![c] = [call EXCEPT !.pc = "connecting"]]
            /\ UNCHANGED serenaProjectPath
       ELSE calls' = [calls EXCEPT ![c] = Caught(call, NotConnected(call.serverName))]
            /\ UNCHANGED serenaProjectPath
    /\ UNCHANGED <<clients, alive, initialized, taskVars, cacheVars>>

\* the reconnection inside callTool resolves: the client is recorded and the
\* tool call is issued on it
reconnected(c) ==
    /\ calls[c].pc = "connecting"
    /\ clients' = clients \cup {calls[c].serverName}
    /\ alive' = alive \cup {calls[c].serverName}
    /\ calls' = [calls EXCEPT ![c] = Invoking(calls[c])]
    /\ UNCHANGED <<serenaProjectPath, initialized, taskVars, cacheVars>>

\* the reconnection inside callTool rejects
reconnectFailed(c, message) ==
    /\ calls[c].pc = "connecting"
    /\ calls' = [calls EXCEPT ![c] = Caught(calls[c], message)]
    /\ UNCHANGED <<clients, serenaProjectPath, alive, initialized, taskVars, cacheVars>>

\* client.callTool resolves: its result is callTool's result
invokeReturned(c) ==
    /\ calls[c].pc = "invoking"
    /\ calls[c].serverName \in alive
    /\ calls' = [calls EXCEPT ![c] =
          [@ EXCEPT !.pc = "done",
              !.outcome = Some([kind |-> "result", attempts |-> 0,
                                message |-> <<"result of request", calls[c].tried>>])]]
    /\ UNCHANGED <<clients, serenaProjectPath, alive, initialized, taskVars, cacheVars>>

\* client.callTool rejects
invokeFailed(c, message) ==
    /\ calls[c].pc = "invoking"
    /\ calls' = [calls EXCEPT ![c] = Caught(calls[c], message)]
    /\ UNCHANGED <<clients, serenaProjectPath, alive, initialized, taskVars, cacheVars>>

\* the backoff sleep ends: attempt++, the loop test, and after the loop
\* `throw lastError`
wake(c) ==
    /\ calls[c].pc = "sleeping"
    /\ calls' = [calls EXCEPT ![c] =
          IF calls[c].attempt + 1 <= calls[c].maxRetries
          THEN [@ EXCEPT !.pc = "attempt", !.attempt = @ + 1]
          ELSE [@ EXCEPT !.pc = "done", !.attempt = @ + 1,
                   !.outcome = Some([kind |-> "error", attempts |-> 0,
                                     message |-> calls[c].lastError[1]])]]
    /\ UNCHANGED <<clients, serenaProjectPath, alive, initialized, taskVars, cacheVars>>

\* the caller takes the outcome
callSettled(c) ==
    /\ calls[c].pc = "done"
    /\ calls' = [calls EXCEPT ![c] = IdleCall]
    /\ UNCHANGED <<clients, serenaProjectPath, alive, initialized, taskVars, cacheVars>>

CallNext ==
    \/ \E okSerena \in BOOLEAN, okSeq \in BOOLEAN : connectAll(okSerena, okSeq)
    \/ \E s \in Servers : transportClose(s)
    \/ \E c \in CallSlots, s \in Servers, t \in Tools,
          m \in MaxRetriesOptions, d \in RetryDelayOptions : callTool(c, s, t, m, d)
    \/ \E c \in CallSlots : attemptStart(c)
    \/ \E c \in CallSlots : reconnected(c)
    \/ \E c \in CallSlots, e \in ConnectErrors : reconnectFailed(c, e)
    \/ \E c \in CallSlots : invokeReturned(c)
    \/ \E c \in CallSlots, e \in InvokeErrors : invokeFailed(c, e)
    \/ \E c \in CallSlots : wake(c)
    \/ \E c \in CallSlots : callSettled(c)

\* ============================================================ SymbolIndex

\* File paths, in the pieces getMemoryName looks at ('/' and '.').
Keys == {<<"a", ".", "js">>, <<"lib", "/", "b">>}

Contents == {"v1", "v2"}

\* crypto.createHash('md5').update(content).digest('hex')
Md5(content) == IF content = "v1" THEN "md5-of-v1" ELSE "md5-of-v2"

\* The symbol trees Serena may return: A > B > C, and one flat function.
Leaf(name, kind) == [name |-> name, kind |-> kind, children |-> <<>>]

ForestABC ==
    <<[name |-> "A", kind |-> "class",
       children |-> <<[name |-> "B", kind |-> "method",
                       children |-> <<Leaf("C", "variable")>>]>>]>>

ForestFlat == <<Leaf("f", "function")>>

\* two functions in document order
ForestPair == <<Leaf("g", "function"), Leaf("f", "function")>>

SymbolForests == {ForestABC, ForestFlat, ForestPair}

Kinds == {"class", "method", "variable", "function"}

\* countSymbols: symbols.length plus the count of every node's children
RECURSIVE countSymbols(_)
countSymbols(symbols) ==
    IF symbols = <<>> THEN 0
    ELSE 1 + countSymbols(Head(symbols).children) + countSymbols(Tail(symbols))

\* filePath.replace(/[\/\.]/g, '_') with the '_symbol_' prefix
getMemoryName(filePath) ==
    <<"_symbol_">> \o
    [i \in 1..Len(filePath) |->
        IF filePath[i] \in {"/", "."} THEN "_" ELSE filePath[i]]

MetadataName == <<"_symbol_", "index", "_", "metadata">>
HashesName == <<"_symbol_", "file", "_", "hashes">>

Names == {getMemoryName(k) : k \in Keys} \cup {MetadataName, HashesName}

\* JSON.stringify(x, null, 2): a string, not the object
Json(x) == <<"json", x>>

\* the memory object KnowledgeBase.store builds
Memory(category, content) == [category |-> category, content |-> content]

\* calculateFileHash: the MD5 of the content, null when readFile throws
calculateFileHash(file) == IF file = None THEN None ELSE Some(Md5(file[1]))

\* hasFileChanged: currentHash !== cachedHash
hasFileChanged(file, cachedHash) == calculateFileHash(file) # cachedHash

\* prior (what cache.set replaced), before (the counters when the call
\* began) and hadEntry are kept for the properties; todo is what clear still
\* has to delete and name the memory it is deleting.
IdleOp ==
    [kind |-> "idle", pc |-> "idle", filePath |-> <<>>, symbols |-> <<>>,
     hash |-> None, data |-> None, hadEntry |-> FALSE, liveAtRead |-> None,
     result |-> None, prior |-> None, before |-> None, todo |-> {}, name |-> <<>>]

\* A new SymbolIndex over an empty knowledge base, in a project that holds
\* the files `keys`.
CacheInitOver(keys) ==
    /\ files \in [keys -> {Some("v1")}]
    /\ cache = [k \in keys |-> None]
    /\ fileHashes = [k \in keys |-> None]
    /\ indexMetadata = [filesIndexed |-> 0, symbolsCount |-> 0]
    /\ kbMemories = [n \in {getMemoryName(k) : k \in keys}
                              \cup {MetadataName, HashesName} |-> None]
    /\ kbDisk = [n \in {getMemoryName(k) : k \in keys}
                          \cup {MetadataName, HashesName} |-> None]
    /\ ops = [o \in FanOutSlots |-> IdleOp]
    /\ registered = [k \in keys |-> None]

CacheInit == CacheInitOver(Keys)

\* ---- the project's files change under the agent
editFile(k, content) ==
    /\ files[k] # Some(content)
    /\ files' = [files EXCEPT ![k] = Some(content)]
    /\ UNCHANGED <<cache, fileHashes, indexMetadata, kbMemories, kbDisk, ops,
                   registered, taskVars, mcpVars>>

removeFile(k) ==
    /\ files[k] # None
    /\ files' = [files EXCEPT ![k] = None]
    /\ UNCHANGED <<cache, fileHashes, indexMetadata, kbMemories, kbDisk, ops,
                   registered, taskVars, mcpVars>>

OnlyOps == UNCHANGED <<files, cache, fileHashes, indexMetadata, kbMemories, kbDisk,
                       registered, taskVars, mcpVars>>

\* What a call found when it began, kept for the properties.
Before ==
    Some([indexMetadata |-> indexMetadata, cache |-> cache,
          kbMemories |-> kbMemories, kbDisk |-> kbDisk])

\* ---- getStats()
\* countSymbolsByKind, for one kind
RECURSIVE countSymbolsByKind(_, _)
countSymbolsByKind(symbols, kind) ==
    IF symbols = <<>> THEN 0
    ELSE (IF Head(symbols).kind = kind THEN 1 ELSE 0)
         + countSymbolsByKind(Head(symbols).children, kind)
         + countSymbolsByKind(Tail(symbols), kind)

RECURSIVE KindTotal(_, _, _)
KindTotal(c, kind, keys) ==
    IF keys = {} THEN 0
    ELSE LET k == CHOOSE k \in keys : TRUE IN
         (IF c[k] = None THEN 0 ELSE countSymbolsByKind(c[k][1].symbols, kind))
         + KindTotal(c, kind, keys \ {k})

\* getCategoryStats: an object with a count for each kind that occurs
getCategoryStats(c) ==
    [kind \in {kd \in Kinds : KindTotal(c, kd, Keys) > 0} |-> KindTotal(c, kind, Keys)]

getStatsOf(metadata, c) ==
    [filesIndexed |-> metadata.filesIndexed,
     symbolsCount |-> metadata.symbolsCount,
     cacheSize |-> Cardinality({k \in Keys : c[k] # None}),
     categories |-> getCategoryStats(c)]

getStats == getStatsOf(indexMetadata, cache)

\* ---- searchSymbols(symbolName, options)
\* A name or a query as its characters.
Chars(string) ==
    CASE string = "" -> <<>>
      [] string = "A" -> <<"A">>
      [] string = "B" -> <<"B">>
      [] string = "C" -> <<"C">>
      [] string = "a" -> <<"a">>
      [] string = "b" -> <<"b">>
      [] string = "c" -> <<"c">>
      [] string = "f" -> <<"f">>
      [] string = "g" -> <<"g">>
      [] string = "o" -> <<"o">>
      [] string = "Foo" -> <<"F", "o", "o">>
      [] string = "foo" -> <<"f", "o", "o">>
      [] string = "FOO" -> <<"F", "O", "O">>
      [] string = "Bar" -> <<"B", "a", "r">>
      [] string = "bar" -> <<"b", "a", "r">>
      [] string = "fooBar" -> <<"f", "o", "o", "B", "a", "r">>

LowerChar(ch) ==
    CASE ch = "A" -> "a"
      [] ch = "B" -> "b"
      [] ch = "C" -> "c"
      [] ch = "F" -> "f"
      [] ch = "O" -> "o"
      [] OTHER -> ch

\* String.prototype.toLowerCase, on characters
toLowerCase(chars) == [i \in 1..Len(chars) |-> LowerChar(chars[i])]

\* String.prototype.includes, on characters
IncludesChars(chars, part) ==
    \E i \in 1..(Len(chars) - Len(part) + 1) :
        SubSeq(chars, i, i + Len(part) - 1) = part

SymbolQueries == {"", "A", "b", "c", "f", "g"}

SearchOptions == [kind : {None} \cup {Some(kd) : kd \in Kinds}, exactMatch : BOOLEAN]

\* a faulty variant: the matches among a node's children come before the node
RECURSIVE findSymbolsInTree_childrenFirst(_, _, _, _, _)
findSymbolsInTree_childrenFirst(symbols, searchName, filePath, options, parentPath) ==
    IF symbols = <<>> THEN <<>>
    ELSE LET symbol == Head(symbols)
             symbolName == toLowerCase(Chars(symbol.name))
             fullPath == IF parentPath # <<>> THEN parentPath \o <<"/", symbol.name>>
                         ELSE <<symbol.name>>
             matches == IF options.exactMatch THEN symbolName = searchName
                        ELSE IncludesChars(symbolName, searchName)
             own == IF matches /\ (options.kind = None \/ Some(symbol.kind) = options.kind)
                    THEN <<[name |-> symbol.name, kind |-> symbol.kind,
                            children |-> symbol.children,
                            filePath |-> filePath, namePath |-> fullPath]>>
                    ELSE <<>>
         IN findSymbolsInTree_childrenFirst(symbol.children, searchName, filePath,
                                            options, fullPath)
            \o own
            \o findSymbolsInTree_childrenFirst(Tail(symbols), searchName, filePath,
                                               options, parentPath)

\* a faulty variant: the children of a node that does not match are not searched
RECURSIVE findSymbolsInTree_prune(_, _, _, _, _)
findSymbolsInTree_prune(symbols, searchName, filePath, options, parentPath) ==
    IF symbols = <<>> THEN <<>>
    ELSE LET symbol == Head(symbols)
             symbolName == toLowerCase(Chars(symbol.name))
             fullPath == IF parentPath # <<>> THEN parentPath \o <<"/", symbol.name>>
                         ELSE <<symbol.name>>
             matches == IF options.exactMatch THEN symbolName = searchName
                        ELSE IncludesChars(symbolName, searchName)
             own == IF matches /\ (options.kind = None \/ Some(symbol.kind) = options.kind)
                    THEN <<[name |-> symbol.name, kind |-> symbol.kind,
                            children |-> symbol.children,
                            filePath |-> filePath, namePath |-> fullPath]>>
                    ELSE <<>>
         IN own
            \o (IF matches
                THEN findSymbolsInTree_prune(symbol.children, searchName, filePath,
                                             options, fullPath)
                ELSE <<>>)
            \o findSymbolsInTree_prune(Tail(symbols), searchName, filePath,
                                       options, parentPath)

\* findSymbolsInTree: pre-order, each match with its filePath and namePath
RECURSIVE findSymbolsInTree(_, _, _, _, _)
findSymbolsInTree(symbols, searchName, filePath, options, parentPath) ==
    IF symbols = <<>> THEN <<>>
    ELSE LET symbol == Head(symbols)
             symbolName == toLowerCase(Chars(symbol.name))
             fullPath == IF parentPath # <<>> THEN parentPath \o <<"/", symbol.name>>
                         ELSE <<symbol.name>>
             matches == IF options.exactMatch THEN symbolName = searchName
                        ELSE IncludesChars(symbolName, searchName)
             own == IF matches /\ (options.kind = None \/ Some(symbol.kind) = options.kind)
                    THEN <<[name |-> symbol.name, kind |-> symbol.kind,
                            children |-> symbol.children,
                            filePath |-> filePath, namePath |-> fullPath]>>
                    ELSE <<>>
         IN own
            \o findSymbolsInTree(symbol.children, searchName, filePath, options, fullPath)
            \o findSymbolsInTree(Tail(symbols), searchName, filePath, options, parentPath)

\* The matches of searchSymbols in the entry of one file (none without an
\* entry). searchSymbols concatenates them over cache.entries(), that is in
\* the Map's insertion order, which the model does not keep.
searchSymbolsIn(c, filePath, symbolName, options) ==
    IF c[filePath] = None THEN <<>>
    ELSE findSymbolsInTree(c[filePath][1].symbols, toLowerCase(Chars(symbolName)),
                           filePath, options, <<>>)

\* results.length of searchSymbols
RECURSIVE searchSymbolsLength(_, _, _, _)
searchSymbolsLength(c, keys, symbolName, options) ==
    IF keys = {} THEN 0
    ELSE LET k == CHOOSE k \in keys : TRUE IN
         Len(searchSymbolsIn(c, k, symbolName, options))
         + searchSymbolsLength(c, keys \ {k}, symbolName, options)

\* ---- indexFile(filePath, symbols, projectPath)
\* Each action is one run of the call between two awaits. writeFile and unlink
\* are taken to succeed.
indexFile(o, filePath, symbols) ==
    /\ ops[o].kind = "idle"
    /\ indexMetadata.filesIndexed < MaxFilesIndexed
    /\ indexMetadata.symbolsCount + countSymbols(symbols) <= MaxSymbolsCount
    /\ ops' = [ops EXCEPT ![o] =
          [IdleOp EXCEPT !.kind = "indexFile", !.pc = "hash",
              !.filePath = filePath, !.symbols = symbols, !.before = Before]]
    /\ OnlyOps

\* calculateFileHash's readFile settles
indexFileHashed(o) ==
    /\ ops[o].kind = "indexFile" /\ ops[o].pc = "hash"
    /\ ops' = [ops EXCEPT ![o] =
          [@ EXCEPT !.pc = "store", !.liveAtRead = files[ops[o].filePath],
              !.hash = calculateFileHash(files[ops[o].filePath])]]
    /\ OnlyOps

\* a faulty variant: the top-level symbols are stored in reverse order
symbolData_reversed(filePath, hash, symbols) ==
    [filePath |-> filePath, hash |-> hash,
     symbols |-> [i \in 1..Len(symbols) |-> symbols[Len(symbols) + 1 - i]],
     indexedAt |-> Date, symbolCount |-> countSymbols(symbols)]

\* the symbolData object indexFile builds
symbolData(filePath, hash, symbols) ==
    [filePath |-> filePath, hash |-> hash, symbols |-> symbols,
     indexedAt |-> Date, symbolCount |-> countSymbols(symbols)]

\* symbolData is built, set in cache and fileHashes, and kb.store puts the
\* memory in KnowledgeBase.memories before it awaits writeFile
indexFileStore(o) ==
    LET op == ops[o]
        data == symbolData(op.filePath, op.hash, op.symbols)
    IN
    /\ op.kind = "indexFile" /\ op.pc = "store"
    /\ cache' = [cache EXCEPT ![op.filePath] = Some(data)]
    /\ fileHashes' = [fileHashes EXCEPT ![op.filePath] = Some(op.hash)]
    /\ kbMemories' = [kbMemories EXCEPT ![getMemoryName(op.filePath)] =
                          Some(Memory("symbols", Json(data)))]
    /\ ops' = [ops EXCEPT ![o] =
          [@ EXCEPT !.pc = "persist", !.data = Some(data),
              !.prior = cache[op.filePath]]]
    /\ registered' = [registered EXCEPT ![op.filePath] =
                          Some([symbols |-> op.symbols, file |-> op.liveAtRead])]
    /\ UNCHANGED <<files, indexMetadata, kbDisk, taskVars, mcpVars>>

\* saveMetadata up to its first await: kb.store of the metadata record
SaveMetadataStart(metadata) ==
    kbMemories' = [kbMemories EXCEPT ![MetadataName] =
                       Some(Memory("symbols", Json(metadata)))]

\* the entry's writeFile settles; the counters are updated and saveMetadata
\* starts
indexFilePersisted(o) ==
    LET op == ops[o]
        name == getMemoryName(op.filePath)
        metadata == [filesIndexed |-> indexMetadata.filesIndexed + 1,
                     symbolsCount |-> indexMetadata.symbolsCount + op.data[1].symbolCount]
    IN
    /\ op.kind = "indexFile" /\ op.pc = "persist"
    /\ kbDisk' = [kbDisk EXCEPT ![name] =
                      Some(Memory("symbols", Json(op.data[1])))]
    /\ indexMetadata' = metadata
    /\ SaveMetadataStart(metadata)
    /\ ops' = [ops EXCEPT ![o] = [@ EXCEPT !.pc = "saveMeta"]]
    /\ UNCHANGED <<files, cache, fileHashes, registered, taskVars, mcpVars>>

\* saveMetadata: the metadata's writeFile settles, and kb.store of the hash
\* registry (Object.fromEntries(this.fileHashes) as it is now) starts
metadataSaved(o) ==
    /\ ops[o].kind \in {"indexFile", "invalidate", "clear"} /\ ops[o].pc = "saveMeta"
    /\ kbDisk' = [kbDisk EXCEPT ![MetadataName] = kbMemories[MetadataName]]
    /\ kbMemories' = [kbMemories EXCEPT ![HashesName] =
                          Some(Memory("symbols", Json(fileHashes)))]
    /\ ops' = [ops EXCEPT ![o] = [@ EXCEPT !.pc = "saveHashes"]]
    /\ UNCHANGED <<files, cache, fileHashes, indexMetadata, registered, taskVars, mcpVars>>

\* saveMetadata: the hash registry's writeFile settles and the call returns
\* (indexFile returns symbolData)
hashesSaved(o) ==
    /\ ops[o].kind \in {"indexFile", "invalidate", "clear"} /\ ops[o].pc = "saveHashes"
    /\ kbDisk' = [kbDisk EXCEPT ![HashesName] = kbMemories[HashesName]]
    /\ ops' = [ops EXCEPT ![o] = [@ EXCEPT !.pc = "done", !.result = ops[o].data]]
    /\ UNCHANGED <<files, cache, fileHashes, indexMetadata, kbMemories, registered,
                   taskVars, mcpVars>>

\* ---- getSymbols(filePath, projectPath)
getSymbols(o, filePath) ==
    /\ ops[o].kind = "idle"
    /\ ops' = [ops EXCEPT ![o] =
          IF cache[filePath] = None
          THEN [IdleOp EXCEPT !.kind = "getSymbols", !.pc = "done",
                   !.filePath = filePath]
          ELSE [IdleOp EXCEPT !.kind = "getSymbols", !.pc = "hash",
                   !.filePath = filePath, !.hadEntry = TRUE,
                   !.data = cache[filePath]]]
    /\ OnlyOps

\* hasFileChanged settles: the file is read now, and compared with the hash
\* of the entry fetched from the cache when the call began
getSymbolsCompared(o) ==
    LET op == ops[o]
        file == files[op.filePath] IN
    /\ op.kind = "getSymbols" /\ op.pc = "hash"
    /\ ops' = [ops EXCEPT ![o] =
          [@ EXCEPT !.pc = "done", !.liveAtRead = file,
              !.hash = calculateFileHash(file),
              !.result = IF hasFileChanged(file, op.data[1].hash)
                         THEN None ELSE op.data]]
    /\ OnlyOps

\* ---- invalidate(filePath)
\* cache and fileHashes drop the key; kb.delete finds the memory (in memories,
\* else on disk), drops it from memories and awaits unlink; with no memory
\* kb.delete returns false at once and the counters are updated
invalidate(o, filePath) ==
    LET name == getMemoryName(filePath)
        found == kbMemories[name] # None \/ kbDisk[name] # None
        metadata == [indexMetadata EXCEPT
                        !.filesIndexed = IF @ - 1 > 0 THEN @ - 1 ELSE 0]
        op == [IdleOp EXCEPT !.kind = "invalidate", !.filePath = filePath,
                  !.hadEntry = (cache[filePath] # None \/ found), !.before = Before]
    IN
    /\ ops[o].kind = "idle"
    /\ cache' = [cache EXCEPT ![filePath] = None]
    /\ fileHashes' = [fileHashes EXCEPT ![filePath] = None]
    /\ registered' = [registered EXCEPT ![filePath] = None]
    /\ IF found
       THEN /\ kbMemories' = [kbMemories EXCEPT ![name] = None]
            /\ ops' = [ops EXCEPT ![o] = [op EXCEPT !.pc = "unlink"]]
            /\ UNCHANGED indexMetadata
       ELSE /\ indexMetadata' = metadata
            /\ SaveMetadataStart(metadata)
            /\ ops' = [ops EXCEPT ![o] = [op EXCEPT !.pc = "saveMeta"]]
    /\ UNCHANGED <<files, kbDisk, taskVars, mcpVars>>

\* kb.delete's unlink settles; the counter is decremented and saveMetadata
\* starts
invalidateUnlinked(o) ==
    LET op == ops[o]
        metadata == [indexMetadata EXCEPT
                        !.filesIndexed = IF @ - 1 > 0 THEN @ - 1 ELSE 0]
    IN
    /\ op.kind = "invalidate" /\ op.pc = "unlink"
    /\ kbDisk' = [kbDisk EXCEPT ![getMemoryName(op.filePath)] = None]
    /\ indexMetadata' = metadata
    /\ SaveMetadataStart(metadata)
    /\ ops' = [ops EXCEPT ![o] = [@ EXCEPT !.pc = "saveMeta"]]
    /\ UNCHANGED <<files, cache, fileHashes, registered, taskVars, mcpVars>>

\* ---- clear()
\* a faulty variant: only the two metadata records are listed
listByCategory_metadataOnly(category) ==
    {n \in {MetadataName, HashesName} :
        kbMemories[n] # None /\ kbMemories[n][1].category = category}

\* kb.listByCategory('symbols'): the names of the memories in
\* KnowledgeBase.memories with that category (the metadata record and the hash
\* registry are among them)
listByCategory(category) ==
    {n \in Names : kbMemories[n] # None /\ kbMemories[n][1].category = category}

EmptyMetadata == [filesIndexed |-> 0, symbolsCount |-> 0]

\* The end of clear: both maps are emptied, the counters are reset and
\* saveMetadata starts.
ClearMaps(o, op, memories) ==
    /\ cache' = [k \in Keys |-> None]
    /\ fileHashes' = [k \in Keys |-> None]
    /\ registered' = [k \in Keys |-> None]
    /\ indexMetadata' = EmptyMetadata
    /\ kbMemories' = [memories EXCEPT ![MetadataName] =
                          Some(Memory("symbols", Json(EmptyMetadata)))]
    /\ ops' = [ops EXCEPT ![o] = [op EXCEPT !.pc = "saveMeta", !.name = <<>>]]

\* The loop of clear comes to the memory `name`: kb.delete drops it from
\* memories and awaits unlink. The loop follows the Map's insertion order,
\* which the model does not keep: any listed name may be the next. With one
\* call in flight a listed memory is still there when its turn comes.
ClearDelete(o, op, memories, name) ==
    /\ kbMemories' = [memories EXCEPT ![name] = None]
    /\ ops' = [ops EXCEPT ![o] = [op EXCEPT !.pc = "unlink", !.name = name]]
    /\ UNCHANGED <<cache, fileHashes, registered, indexMetadata>>

clear(o) ==
    LET op == [IdleOp EXCEPT !.kind = "clear", !.todo = listByCategory("symbols"),
                  !.hadEntry = (\E k \in Keys : cache[k] # None), !.before = Before]
    IN
    /\ ops[o].kind = "idle"
    /\ IF op.todo = {}
       THEN ClearMaps(o, op, kbMemories)
       ELSE \E name \in op.todo : ClearDelete(o, op, kbMemories, name)
    /\ UNCHANGED <<files, kbDisk, taskVars, mcpVars>>

\* an unlink of clear settles; the loop goes on to the next name, or ends
clearUnlinked(o) ==
    LET op == [ops[o] EXCEPT !.todo = @ \ {ops[o].name}] IN
    /\ ops[o].kind = "clear" /\ ops[o].pc = "unlink"
    /\ kbDisk' = [kbDisk EXCEPT ![ops[o].name] = None]
    /\ IF op.todo = {}
       THEN ClearMaps(o, op, kbMemories)
       ELSE \E name \in op.todo : ClearDelete(o, op, kbMemories, name)
    /\ UNCHANGED <<files, taskVars, mcpVars>>

\* the caller takes the result
opSettled(o) ==
    /\ ops[o].pc = "done"
    /\ ops' = [ops EXCEPT ![o] = IdleOp]
    /\ OnlyOps

CacheNext ==
    \/ \E k \in Keys, c \in Contents : editFile(k, c)
    \/ \E k \in Keys : removeFile(k)
    \/ \E o \in OpSlots, k \in Keys, f \in SymbolForests : indexFile(o, k, f)
    \/ \E o \in OpSlots : indexFileHashed(o)
    \/ \E o \in OpSlots : indexFileStore(o)
    \/ \E o \in OpSlots : indexFilePersisted(o)
    \/ \E o \in OpSlots : metadataSaved(o)
    \/ \E o \in OpSlots : hashesSaved(o)
    \/ \E o \in OpSlots, k \in Keys : getSymbols(o, k)
    \/ \E o \in OpSlots : getSymbolsCompared(o)
    \/ \E o \in OpSlots, k \in Keys : invalidate(o, k)
    \/ \E o \in OpSlots : invalidateUnlinked(o)
    \/ \E o \in OpSlots : clear(o)
    \/ \E o \in OpSlots : clearUnlinked(o)
    \/ \E o \in OpSlots : opSettled(o)

\* ============================================= the driver (ApolloAgent)

\* The first task that is in-progress (tasks.find(t => t.status ===
\* 'in-progress')), 0 when there is none.
RECURSIVE InProgressFrom(_, _)
InProgressFrom(ts, i) ==
    IF i > Len(ts) THEN 0
    ELSE IF ts[i].status = "in-progress" THEN i
    ELSE InProgressFrom(ts, i + 1)

\* planningPhase, the user confirming the plan the planner proposed
planningPhase(taskList) == createPlan(taskList)

\* updateTaskProgress: runs on every tool call of the agent loop
updateTaskProgress ==
    LET n == getNextTask IN
    IF n # 0 /\ tasks[n].status = "pending"
    THEN startTask(tasks[n].id)
    ELSE UNCHANGED vars

\* completeCurrentTask: the "complete" command
completeCurrentTask(result) ==
    LET c == InProgressFrom(tasks, 1) IN
    IF c # 0 THEN completeTask(tasks[c].id, result) ELSE UNCHANGED vars

\* processTask's catch block: the agent loop threw
processTaskCatch(message) ==
    LET c == InProgressFrom(tasks, 1) IN
    IF c # 0 THEN failTask(tasks[c].id, message) ELSE UNCHANGED vars

\* the "reset tasks" command
resetTasks == reset

DriverNext ==
    \/ \E L \in PlanInputs : planningPhase(L)
    \/ updateTaskProgress
    \/ \E r \in {None} \cup Results : completeCurrentTask(r)
    \/ \E e \in Errors : processTaskCatch(e)
    \/ resetTasks

Init == TaskInit /\ McpInit /\ CacheInit

SpecTasks == Init /\ [][TaskNext]_vars

SpecRestore == Init /\ [][RestoreNext]_vars

QueryStart == QueryInit /\ McpInit /\ CacheInit

SpecQuery == QueryStart /\ [][QueryNext]_vars

SpecDriver == Init /\ [][DriverNext]_vars

SpecCall == Init /\ [][CallNext]_vars

SpecCache == Init /\ [][CacheNext]_vars

\* ================================================================ claims

LegalEdges ==
    {<<"pending", "in-progress">>, <<"in-progress", "completed">>,
     <<"in-progress", "failed">>, <<"pending", "skipped">>}

\* The same task before and after a step: same position, same id.
SameTask(i) == i <= Len(tasks') /\ tasks'[i].id = tasks[i].id

\* C4 (as claimed): every change of a task's status, under any sequence of
\* startTask/completeTask/failTask/skipTask calls, follows a legal edge of the
\* state machine; a terminal task never changes status again.
C4_OnlyLegalEdges ==
    [][\A i \in 1..Len(tasks) :
          (SameTask(i) /\ tasks'[i].status # tasks[i].status)
              => <<tasks[i].status, tasks'[i].status>> \in LegalEdges]_vars

\* The status a method asks for, and whether the task with that id may take it.
Illegal(taskId, to) ==
    LET i == FindTask(tasks, taskId) IN
    i # 0 /\ <<tasks[i].status, to>> \notin LegalEdges

\* C5 (as claimed): a transition request that is illegal for the task's
\* current status raises an error to the caller and leaves the task list
\* (status, result, error, timestamps) as it was.
C5_IllegalTransitionRaises ==
    [][\A id \in TaskIds :
          ( \/ (Illegal(id, "in-progress") /\ startTask(id))
            \/ (Illegal(id, "completed") /\ \E r \in Results : completeTask(id, r))
            \/ (Illegal(id, "failed") /\ \E e \in Errors : failTask(id, e))
            \/ (Illegal(id, "skipped") /\ \E r \in Results : skipTask(id, r)) )
          => (thrown' # None /\ tasks' = tasks)]_vars

\* A task is runnable, said without the code's find: it is pending and each
\* dependency id is the id of some completed task of the list.
Runnable(i) ==
    /\ tasks[i].status = "pending"
    /\ \A d \in tasks[i].dependencies :
          \E k \in 1..Len(tasks) : tasks[k].id = d /\ tasks[k].status = "completed"

\* The plan [A, B (dep A), C (dep A)] with ids 1, 2, 3.
IsPlanABC ==
    /\ Len(tasks) = 3
    /\ \A i \in 1..3 : tasks[i].id = i
    /\ tasks[1].dependencies = {}
    /\ tasks[2].dependencies = {1}
    /\ tasks[3].dependencies = {1}

\* C6: getNextTask returns the first task, in insertion order, that is pending
\* with every dependency id resolving to a completed task, and none when there
\* is no such task; for [A, B (dep A), C (dep A)] it returns A while all are
\* pending and B, not C, once A is completed.
C6_NextRunnableIsFirst ==
    LET r == getNextTask IN
    /\ r \in 0..Len(tasks)
    /\ r # 0 => Runnable(r) /\ \A j \in 1..(r - 1) : ~Runnable(j)
    /\ r = 0 => \A j \in 1..Len(tasks) : ~Runnable(j)
    /\ (IsPlanABC /\ \A i \in 1..3 : tasks[i].status = "pending") => r = 1
    /\ (IsPlanABC /\ tasks[1].status = "completed"
          /\ tasks[2].status = "pending" /\ tasks[3].status = "pending") => r = 2

C6_Witness ==
    /\ IsPlanABC
    /\ tasks[1].status = "completed"
    /\ tasks[2].status = "pending"
    /\ tasks[3].status = "pending"
    /\ getNextTask = 2

\* C7: when tasks are started only through getNextTask + startTask (the
\* driver), every task that is in-progress, completed or failed has all of its
\* dependencies completed.
C7_DepsFinishBeforeRun ==
    \A i \in 1..Len(tasks) :
        tasks[i].status \in {"in-progress", "completed", "failed"}
            => \A d \in tasks[i].dependencies :
                  \E k \in 1..Len(tasks) :
                      tasks[k].id = d /\ tasks[k].status = "completed"

C7_Witness ==
    \E i \in 1..Len(tasks) :
        /\ tasks[i].status \in {"in-progress", "completed", "failed"}
        /\ tasks[i].dependencies # {}

\* ---- the invoker

\* The failures the spec calls retryable (network reset, timeout, endpoint
\* disconnected) among the messages of the model.
RetryableFailures ==
    {<<"read", "ECONNRESET">>, <<"Request", "timeout">>, <<"spawn", "ETIMEDOUT">>}

Done(c) == calls[c].pc = "done"

\* C8: one callTool makes at most maxRetries attempts; when the last of them
\* fails with a retryable error (so every attempt did) the call raises
\* RetriesExhausted after exactly maxRetries attempts, carrying the attempt
\* count and the last cause, having slept only between attempts (maxRetries - 1
\* delays, none after the final failure).
C8_RetriesExhausted ==
    \A c \in CallSlots :
        /\ calls[c].tried <= calls[c].maxRetries
        /\ (Done(c) /\ calls[c].outcome[1].kind # "result"
              /\ calls[c].lastError[1] \in RetryableFailures)
            => /\ calls[c].outcome[1].kind = "RetriesExhausted"
               /\ calls[c].tried = calls[c].maxRetries
               /\ calls[c].outcome[1].attempts = calls[c].maxRetries
               /\ calls[c].outcome[1].message = calls[c].lastError[1]
               /\ Len(calls[c].delays) = calls[c].maxRetries - 1

C8_Witness ==
    \E c \in CallSlots :
        /\ Done(c)
        /\ calls[c].maxRetries = 3
        /\ calls[c].tried = 3
        /\ calls[c].outcome[1].kind = "RetriesExhausted"
        /\ calls[c].lastError[1] \in RetryableFailures

\* C9 (as claimed): a non-retryable failure on any attempt, the last allowed
\* one included, ends the call with that error itself; the RetriesExhausted
\* wrapper is raised only when the last failure was retryable.
C9_FatalPropagatesUnwrapped ==
    \A c \in CallSlots :
        (Done(c) /\ calls[c].outcome[1].kind # "result")
            => /\ calls[c].lastError[1] \notin RetryableFailures
                  => /\ calls[c].outcome[1].kind = "error"
                     /\ calls[c].outcome[1].message = calls[c].lastError[1]
               /\ calls[c].outcome[1].kind = "RetriesExhausted"
                  => calls[c].lastError[1] \in RetryableFailures

\* C10: the k-th delay of a call is retryDelayMs * 2^(k-1) (the first is
\* retryDelayMs, each next one twice the one before); a call that succeeds on
\* attempt n has slept exactly n - 1 times and returns the result of that
\* attempt; with maxRetries = 3 and retryDelayMs = 100, two retryable failures
\* and then a success give the delays <<100, 200>>.
C10_BackoffSchedule ==
    \A c \in CallSlots :
        LET d == calls[c].delays IN
        /\ Len(d) >= 1 => d[1] = calls[c].retryDelayMs
        /\ \A k \in 1..(Len(d) - 1) : d[k + 1] = 2 * d[k]
        /\ (Done(c) /\ calls[c].outcome[1].kind = "result")
            => /\ Len(d) = calls[c].tried - 1
               /\ calls[c].outcome[1].message = <<"result of request", calls[c].tried>>
        /\ (Done(c) /\ calls[c].outcome[1].kind = "result" /\ calls[c].tried = 3
              /\ calls[c].retryDelayMs = 100)
            => d = <<100, 200>>

C10_Witness ==
    \E c \in CallSlots :
        /\ Done(c)
        /\ calls[c].outcome[1].kind = "result"
        /\ calls[c].maxRetries = 3
        /\ calls[c].tried = 3
        /\ calls[c].delays = <<100, 200>>

\* ---- the symbol cache

\* A getSymbols call that has returned.
Looked(o) == ops[o].kind = "getSymbols" /\ ops[o].pc = "done"

\* C1 (as claimed): getSymbols returns the stored entry only if there was an
\* entry for the key and its stored fingerprint equals the fingerprint (the
\* content hash) of the live source during the lookup, and returns null in
\* every other case; an entry registered with fingerprint f1 is never
\* returned once the live source has the fingerprint f2 # f1. An unreadable
\* source has no fingerprint, and an entry stored with a null hash has none.
C1_HitOnlyOnEqualFingerprint ==
    \A o \in OpSlots :
        Looked(o) =>
            LET op == ops[o]
                equal == /\ op.hadEntry
                         /\ op.liveAtRead # None
                         /\ op.data[1].hash = Some(Md5(op.liveAtRead[1]))
            IN
            /\ op.result # None => (equal /\ op.result = op.data)
            /\ ~equal => op.result = None

\* C2 (as claimed): a lookup during which the source is unreadable never
\* reports a hit, whatever the cache holds.
C2_NoHitWhenUnreadable ==
    \A o \in OpSlots :
        (Looked(o) /\ ops[o].hadEntry /\ ops[o].liveAtRead = None)
            => ops[o].result = None

\* C3 (as claimed): an indexFile whose hashing found the source unreadable
\* creates or overwrites no entry, in memory or in the durable store, and
\* leaves the counters alone.
C3_UnreadableNotCached ==
    [][\A o \in OpSlots :
          (/\ ops[o].kind = "indexFile"
           /\ ops[o].pc \in {"store", "persist", "saveMeta", "saveHashes"}
           /\ ops[o].liveAtRead = None
           /\ ops'[o] # ops[o])
          => /\ cache' = cache
             /\ fileHashes' = fileHashes
             /\ kbMemories' = kbMemories
             /\ kbDisk' = kbDisk
             /\ indexMetadata' = indexMetadata]_vars

\* The key and the memory name of the call in slot o.
KeyOf(o) == ops[o].filePath

Finished(o, kind) == ops[o].kind = kind /\ ops[o].pc = "done"

\* C11: a getSymbols that follows an indexFile of the same file, with the
\* source as it was when indexFile read it, returns the entry, and the
\* entry's symbols are the symbols indexFile was given: the same nodes in the
\* same order, children included.
C11_RoundTrip ==
    \A o \in OpSlots :
        (/\ Looked(o)
         /\ registered[KeyOf(o)] # None
         /\ ops[o].liveAtRead = registered[KeyOf(o)][1].file)
        => /\ ops[o].result # None
           /\ ops[o].result[1].symbols = registered[KeyOf(o)][1].symbols

C11_Witness ==
    \E o \in OpSlots :
        /\ Looked(o)
        /\ registered[KeyOf(o)] # None
        /\ registered[KeyOf(o)][1].symbols = ForestPair
        /\ ops[o].liveAtRead # None
        /\ ops[o].liveAtRead = registered[KeyOf(o)][1].file
        /\ ops[o].result # None

\* C12 (as claimed): an indexFile that finds the entry it is about to write
\* already there (same key, same hash, same symbols) leaves getStats() as it
\* was after the first call, and the entry as it was.
C12_RegisterIdempotent ==
    \A o \in OpSlots :
        (/\ Finished(o, "indexFile")
         /\ ops[o].prior # None
         /\ ops[o].prior[1].hash = ops[o].hash
         /\ ops[o].prior[1].symbols = ops[o].symbols)
        => /\ getStats = getStatsOf(ops[o].before[1].indexMetadata, ops[o].before[1].cache)
           /\ cache[KeyOf(o)] = ops[o].prior

\* The number of nodes in the entries of a cache.
RECURSIVE CachedSymbols(_, _)
CachedSymbols(c, keys) ==
    IF keys = {} THEN 0
    ELSE LET k == CHOOSE k \in keys : TRUE IN
         (IF c[k] = None THEN 0 ELSE countSymbols(c[k][1].symbols))
         + CachedSymbols(c, keys \ {k})

\* C13 (as claimed): whenever no call is in flight, filesIndexed is the number
\* of entries in the cache and symbolsCount is the number of nodes in them.
C13_CountersAgreeWithCache ==
    (\A o \in OpSlots : ops[o].kind = "idle")
        => /\ indexMetadata.filesIndexed = Cardinality({k \in Keys : cache[k] # None})
           /\ indexMetadata.symbolsCount = CachedSymbols(cache, Keys)

\* C14 (as claimed): when invalidate(key) has returned, the key has no entry
\* in the cache, in KnowledgeBase.memories or on disk, and every other key has
\* the entries it had; if the key had no entry at all, the cache, the entries
\* on disk and the counters are what they were.
C14_InvalidateFrame ==
    \A o \in OpSlots :
        Finished(o, "invalidate") =>
            LET b == ops[o].before[1]
                name == getMemoryName(KeyOf(o)) IN
            /\ cache[KeyOf(o)] = None
            /\ kbMemories[name] = None
            /\ kbDisk[name] = None
            /\ \A k \in Keys \ {KeyOf(o)} :
                  /\ cache[k] = b.cache[k]
                  /\ kbDisk[getMemoryName(k)] = b.kbDisk[getMemoryName(k)]
            /\ ~ops[o].hadEntry
                  => /\ cache = b.cache
                     /\ \A k \in Keys : kbDisk[getMemoryName(k)] = b.kbDisk[getMemoryName(k)]
                     /\ indexMetadata = b.indexMetadata

C16_IdsNeverReused ==
    [][/\ \A i, j \in 1..Len(tasks') : i # j => tasks'[i].id # tasks'[j].id
       /\ \A L \in RestorePlans :
             createPlan(L) => \A n \in issued : taskIdCounter > n
       /\ \A t \in TaskInputs :
             addTask(t) => \A n \in issued : taskIdCounter > n]_vars

\* C17: createPlan(description, L) leaves exactly one task per element of L,
\* in L's order, each pending with result, error, startedAt and completedAt
\* empty, and none of the tasks the list held before.
C17_CreatePlanReplaces ==
    [][\A L \in PlanInputs :
          createPlan(L) =>
              /\ currentPlan' # None
              /\ Len(tasks') = Len(L)
              /\ \A i \in 1..Len(L) :
                    /\ tasks'[i].name = L[i].name
                    /\ tasks'[i].dependencies = L[i].dependencies
                    /\ tasks'[i].status = "pending"
                    /\ tasks'[i].result = None
                    /\ tasks'[i].error = None
                    /\ tasks'[i].startedAt = None
                    /\ tasks'[i].completedAt = None
                    /\ \A j \in 1..Len(tasks) : tasks'[i].id # tasks[j].id]_vars

C17_Witness ==
    /\ currentPlan # None
    /\ Len(tasks) = 2
    /\ tasks[1].name = "A" /\ tasks[2].name = "B"
    /\ tasks[1].id > 1
    /\ \A i \in 1..2 : tasks[i].status = "pending" /\ tasks[i].startedAt = None

Answered(method) == returned # None /\ returned[1].method = method

\* C18: isComplete() returns true exactly when no task is pending or
\* in-progress, that is when every task is completed, failed or skipped; it
\* returns true for 3 completed + 2 skipped and for the empty list.
C18_IsCompleteIffAllTerminal ==
    Answered("isComplete") =>
        LET v == returned[1].value IN
        /\ v = (\A i \in 1..Len(tasks) :
                    tasks[i].status \in {"completed", "failed", "skipped"})
        /\ v = ~(\E i \in 1..Len(tasks) : tasks[i].status \in {"pending", "in-progress"})
        /\ (/\ Len(tasks) = 5
            /\ Cardinality({i \in 1..5 : tasks[i].status = "completed"}) = 3
            /\ Cardinality({i \in 1..5 : tasks[i].status = "skipped"}) = 2) => v
        /\ tasks = <<>> => v

C18_Witness ==
    /\ Answered("isComplete")
    /\ returned[1].value
    /\ Len(tasks) = 5
    /\ Cardinality({i \in 1..5 : tasks[i].status = "completed"}) = 3
    /\ Cardinality({i \in 1..5 : tasks[i].status = "skipped"}) = 2

\* 100 * completed / total rounded to the nearest integer: a tie (x.5) up,
\* or to the even neighbour.
RoundHalfUp(completed, total) == (200 * completed + total) \div (2 * total)

RoundHalfEven(completed, total) ==
    LET floor == (100 * completed) \div total
        twice == 200 * completed - 2 * floor * total   \* 2 * total * fraction
    IN IF twice > total THEN floor + 1
       ELSE IF twice < total THEN floor
       ELSE IF floor % 2 = 0 THEN floor ELSE floor + 1

\* C19 (as claimed): getProgress() reports total, completed, failed,
\* inProgress and pending as the numbers of tasks in those statuses, and
\* percentage as 100 * completed / total rounded to the nearest integer (0 for
\* an empty list, 40 for 2 of 5); failed and skipped tasks add nothing to it.
C19_ProgressArithmetic ==
    Answered("getProgress") =>
        LET v == returned[1].value
            n(status) == Cardinality({i \in 1..Len(tasks) : tasks[i].status = status})
        IN
        /\ v.total = Len(tasks)
        /\ v.completed = n("completed")
        /\ v.failed = n("failed")
        /\ v.inProgress = n("in-progress")
        /\ v.pending = n("pending")
        /\ v.total = 0 => v.percentage = 0
        /\ v.total > 0 => v.percentage \in {RoundHalfUp(n("completed"), v.total),
                                            RoundHalfEven(n("completed"), v.total)}
        /\ (v.total = 5 /\ n("completed") = 2) => v.percentage = 40

\* The fields of a TaskManager as its constructor leaves them.
Constructed == [tasks |-> <<>>, taskIdCounter |-> 1, currentPlan |-> None]

\* C20: reset() leaves the task list empty, the plan null and the id counter
\* 1, the values the constructor sets, whatever was done before.
C20_ResetIsFresh ==
    [][reset =>
          [tasks |-> tasks', taskIdCounter |-> taskIdCounter',
           currentPlan |-> currentPlan'] = Constructed]_vars

\* reset() after a plan was made and saved: the saved tasks are the only ones
\* left.
C20_Witness ==
    /\ saved # None
    /\ ~saved[1].alias
    /\ saved[1].tasks # <<>>
    /\ saved[1].taskIdCounter > 1
    /\ tasks = <<>>
    /\ taskIdCounter = 1
    /\ currentPlan = None

\* ---------------------------------------------------------------- C21

\* The tasks of a list that name the task at index k as a dependency.
Dependents(ts, k) == {d \in 1..Len(ts) : ts[k].id \in ts[d].dependencies}

\* A step that leaves the list holding the same tasks (no new plan, no reset).
SameList ==
    /\ Len(tasks') = Len(tasks)
    /\ \A i \in 1..Len(tasks) : tasks'[i].id = tasks[i].id

\* C21 (as claimed): once a task is failed or skipped, no task that depends on
\* it is returned by getNextTask in any later state of the same list, and
\* failTask and skipTask change no task but the one they are called on
\* (dependents are not skipped or failed with it).
C21_FailedDependencyBlocksForever ==
    [][/\ \A k \in 1..Len(tasks) :
             (tasks[k].status \in {"failed", "skipped"} /\ SameList)
                 => \A d \in Dependents(tasks, k) : getNextTask' # d
       /\ \A id \in TaskIds :
             ((\E e \in Errors : failTask(id, e)) \/ (\E r \in Results : skipTask(id, r)))
                 => \A i \in 1..Len(tasks) :
                       i # FindTask(tasks, id) => tasks'[i] = tasks[i]]_vars

\* ---------------------------------------------------------------- C22

\* One step of the agent loop: the tool calls of one response run together,
\* each through callTool with the default options; the endpoints are up or
\* down as connectAll and the server processes left them.
FanOutServers == {"serena", "sequential-thinking"}

FanOutNext ==
    \/ \E okSerena \in BOOLEAN, okSeq \in BOOLEAN : connectAll(okSerena, okSeq)
    \/ transportClose("serena")
    \/ \E c \in FanOutSlots, s \in FanOutServers :
          callTool(c, s, "find_symbol", Some(2), None)
    \/ \E c \in FanOutSlots : attemptStart(c)
    \/ \E c \in FanOutSlots : reconnected(c)
    \/ \E c \in FanOutSlots : reconnectFailed(c, <<"spawn", "ETIMEDOUT">>)
    \/ \E c \in FanOutSlots : invokeReturned(c)
    \/ \E c \in FanOutSlots : invokeFailed(c, <<"read", "ECONNRESET">>)
    \/ \E c \in FanOutSlots : wake(c)
    \/ \E c \in FanOutSlots : callSettled(c)

SpecFanOut == Init /\ [][FanOutNext]_vars

\* The calls that are inside a connection attempt to an endpoint: a transport
\* was spawned for each and client.connect has not settled.
Connecting(serverName) ==
    {c \in FanOutSlots : calls[c].pc = "connecting" /\ calls[c].serverName = serverName}

\* C22 (as claimed): at most one reconnection is in flight per endpoint at any
\* time, however many concurrent callTool invocations found it disconnected.
C22_OneReconnectPerEndpoint ==
    \A s \in Servers : Cardinality(Connecting(s)) <= 1

\* ---------------------------------------------------------------- C23

\* The tool calls of one agent-loop step register symbols for one file.
SameKey == <<"a", ".", "js">>

SameKeyNext ==
    \/ \E o \in FanOutSlots, s \in {ForestFlat, ForestPair} : indexFile(o, SameKey, s)
    \/ \E o \in FanOutSlots : indexFileHashed(o)
    \/ \E o \in FanOutSlots : indexFileStore(o)
    \/ \E o \in FanOutSlots : indexFilePersisted(o)
    \/ \E o \in FanOutSlots : metadataSaved(o)
    \/ \E o \in FanOutSlots : hashesSaved(o)

SpecSameKey == Init /\ [][SameKeyNext]_vars

\* The cache entry, the fingerprint record, the memory and the file on disk
\* of a key are all what the registration of call o wrote.
AllFrom(o) ==
    LET k == KeyOf(o)
        name == getMemoryName(k) IN
    /\ cache[k] = ops[o].data
    /\ fileHashes[k] = Some(ops[o].hash)
    /\ kbMemories[name] = Some(Memory("symbols", Json(ops[o].data[1])))
    /\ kbDisk[name] = Some(Memory("symbols", Json(ops[o].data[1])))

\* C23 (as claimed): once two concurrent indexFile calls for one key have both
\* returned, the cache entry, the stored fingerprint, the memory and the
\* durable-store entry all come from one of the two registrations.
C23_SameKeyLastWriteWins ==
    \A o1, o2 \in FanOutSlots :
        (o1 # o2 /\ Finished(o1, "indexFile") /\ Finished(o2, "indexFile")
               /\ KeyOf(o1) = KeyOf(o2))
            => (AllFrom(o1) \/ AllFrom(o2))

\* ---------------------------------------------------------------- C24

\* A project that holds lib/b and lib.b: two files, two keys.
NearKeys == {<<"lib", "/", "b">>, <<"lib", ".", "b">>}

NearStart == TaskInit /\ McpInit /\ CacheInitOver(NearKeys)

NearNext ==
    \/ \E o \in OpSlots, k \in NearKeys, f \in {ForestFlat, ForestPair} : indexFile(o, k, f)
    \/ \E o \in OpSlots : indexFileHashed(o)
    \/ \E o \in OpSlots : indexFileStore(o)
    \/ \E o \in OpSlots : indexFilePersisted(o)
    \/ \E o \in OpSlots : metadataSaved(o)
    \/ \E o \in OpSlots : hashesSaved(o)
    \/ \E o \in OpSlots, k \in NearKeys : invalidate(o, k)
    \/ \E o \in OpSlots : invalidateUnlinked(o)
    \/ \E o \in OpSlots : opSettled(o)

SpecNear == NearStart /\ [][NearNext]_vars

\* C24 (as claimed): when indexFile or invalidate of one key has returned,
\* every other key has the cache entry and the durable-store entry it had
\* when the call began.
C24_OtherKeysUntouched ==
    \A o \in OpSlots :
        (Finished(o, "indexFile") \/ Finished(o, "invalidate"))
            => \A k \in (DOMAIN cache) \ {KeyOf(o)} :
                  /\ cache[k] = ops[o].before[1].cache[k]
                  /\ kbDisk[getMemoryName(k)] = ops[o].before[1].kbDisk[getMemoryName(k)]

\* =================================== the driver's symbol lookup (ApolloAgent)

\* What Serena's get_symbols_overview answers for a file: the symbol tree of
\* the content it read.
SymbolsOf(content) == IF content = "v1" THEN ForestFlat ELSE ForestPair

SymbolsTool == "mcp_oraios_serena_get_symbols_overview"

\* result.result as getFileSymbols finds it in a call that resolved: the JSON
\* of the symbols, a string JSON.parse rejects, or nothing
Payloads == {"symbols", "unparseable", "absent"}

\* getFileSymbols goes to Serena: this.mcp.callTool('serena', ...) with the
\* default options is entered and getFileSymbols awaits it.
FetchStart(o, c, filePath) ==
    /\ ops' = [ops EXCEPT ![o] =
          [IdleOp EXCEPT !.kind = "getFileSymbols", !.pc = "fetch",
              !.filePath = filePath, !.before = Before]]
    /\ calls' = [calls EXCEPT ![c] =
          [IdleCall EXCEPT
              !.pc = "attempt", !.serverName = "serena", !.toolName = SymbolsTool,
              !.maxRetries = DefaultMaxRetries,
              !.retryDelayMs = DefaultRetryDelayMs, !.attempt = 1]]
    /\ UNCHANGED <<files, cache, fileHashes, indexMetadata, kbMemories, kbDisk,
                   registered, clients, serenaProjectPath, alive, initialized, taskVars>>

\* getFileSymbols(filePath, {forceRefresh}) up to its first await: the cache
\* lookup, or with forceRefresh the remote call at once
getFileSymbols(o, c, filePath, forceRefresh) ==
    /\ initialized
    /\ ops[o].kind = "idle" /\ calls[c].pc = "idle"
    /\ IF forceRefresh THEN FetchStart(o, c, filePath) ELSE getSymbols(o, filePath)

\* getSymbols has returned: a hit is returned to the caller, a miss goes to
\* Serena
getFileSymbolsLooked(o, c) ==
    /\ Finished(o, "getSymbols") /\ calls[c].pc = "idle"
    /\ IF ops[o].result # None
       THEN /\ ops' = [ops EXCEPT ![o] = [@ EXCEPT !.kind = "getFileSymbols"]]
            /\ OnlyOps
       ELSE FetchStart(o, c, ops[o].filePath)

\* a faulty variant: a failed fetch leaves an empty entry for the key
fetchSettled_placeholder(o, c, payload) ==
    LET op == ops[o]
        outcome == calls[c].outcome[1]
        file == files[op.filePath]
        ok == outcome.kind = "result" /\ payload = "symbols" /\ file # None
    IN
    /\ op.kind = "getFileSymbols" /\ op.pc = "fetch" /\ calls[c].pc = "done"
    /\ outcome.kind = "result" \/ payload = "absent"
    /\ ok => /\ indexMetadata.filesIndexed < MaxFilesIndexed
             /\ indexMetadata.symbolsCount + countSymbols(SymbolsOf(file[1]))
                    <= MaxSymbolsCount
    /\ calls' = [calls EXCEPT ![c] = IdleCall]
    /\ ops' = [ops EXCEPT ![o] =
          IF ok
          THEN [IdleOp EXCEPT !.kind = "indexFile", !.pc = "hash",
                   !.filePath = op.filePath, !.symbols = SymbolsOf(file[1]),
                   !.before = op.before]
          ELSE [op EXCEPT !.pc = "done", !.result = None,
                   !.data = Some([fetch |-> outcome.kind, payload |-> payload])]]
    /\ cache' = IF ok THEN cache
                ELSE [cache EXCEPT ![op.filePath] =
                         Some(symbolData(op.filePath, None, <<>>))]
    /\ UNCHANGED <<files, fileHashes, indexMetadata, kbMemories, kbDisk,
                   registered, clients, serenaProjectPath, alive, initialized, taskVars>>

\* callTool has settled and getFileSymbols goes on. A result with a payload
\* that parses is handed to indexFile, which starts hashing the file; a
\* result without result.result ends the call with undefined; a rejected
\* call or a payload JSON.parse rejects is caught, reported, and ends the call
\* with null.
fetchSettled(o, c, payload) ==
    LET op == ops[o]
        outcome == calls[c].outcome[1]
        file == files[op.filePath]
        ok == outcome.kind = "result" /\ payload = "symbols" /\ file # None
    IN
    /\ op.kind = "getFileSymbols" /\ op.pc = "fetch" /\ calls[c].pc = "done"
    /\ outcome.kind = "result" \/ payload = "absent"
    /\ ok => /\ indexMetadata.filesIndexed < MaxFilesIndexed
             /\ indexMetadata.symbolsCount + countSymbols(SymbolsOf(file[1]))
                    <= MaxSymbolsCount
    /\ calls' = [calls EXCEPT ![c] = IdleCall]
    /\ ops' = [ops EXCEPT ![o] =
          IF ok
          THEN [IdleOp EXCEPT !.kind = "indexFile", !.pc = "hash",
                   !.filePath = op.filePath, !.symbols = SymbolsOf(file[1]),
                   !.before = op.before]
          ELSE [op EXCEPT !.pc = "done", !.result = None,
                   !.data = Some([fetch |-> outcome.kind, payload |-> payload])]]
    /\ UNCHANGED <<files, cache, fileHashes, indexMetadata, kbMemories, kbDisk,
                   registered, clients, serenaProjectPath, alive, initialized, taskVars>>

FetchKeys == {<<"a", ".", "js">>}

FetchNext ==
    \/ \E okSerena \in BOOLEAN : connectAll(okSerena, TRUE)
    \/ transportClose("serena")
    \/ \E k \in FetchKeys, c \in Contents : editFile(k, c)
    \/ \E k \in FetchKeys : removeFile(k)
    \/ \E k \in FetchKeys, force \in BOOLEAN : getFileSymbols(1, 1, k, force)
    \/ getSymbolsCompared(1)
    \/ getFileSymbolsLooked(1, 1)
    \/ attemptStart(1)
    \/ reconnected(1)
    \/ reconnectFailed(1, <<"spawn", "ENOENT">>)
    \/ invokeReturned(1)
    \/ \E e \in InvokeErrors : invokeFailed(1, e)
    \/ wake(1)
    \/ \E p \in Payloads : fetchSettled(1, 1, p)
    \/ indexFileHashed(1)
    \/ indexFileStore(1)
    \/ indexFilePersisted(1)
    \/ metadataSaved(1)
    \/ hashesSaved(1)
    \/ opSettled(1)

SpecFetch == Init /\ [][FetchNext]_vars

\* ---------------------------------------------------------------- C25

\* The content a payload was produced from.
SourceOf(symbols) == CHOOSE c \in Contents : SymbolsOf(c) = symbols

\* C25 (as claimed): in every reachable state the fingerprint stored in a
\* cache entry is the fingerprint of the content its symbols were produced
\* from, also when the file is edited between the fetch and the registration.
C25_FingerprintMatchesPayload ==
    \A k \in DOMAIN cache :
        cache[k] # None
            => cache[k][1].hash = Some(Md5(SourceOf(cache[k][1].symbols)))

\* ---------------------------------------------------------------- C30

\* getFileSymbols returned without symbols: the fetch failed.
FetchFailed(o) == Finished(o, "getFileSymbols") /\ ops[o].result = None

\* C30: a cache entry holds symbols that a fetch returned, and when the fetch
\* of getFileSymbols fails (retries exhausted, a fatal error, or a payload
\* that cannot be used) the cache entries, the knowledge base in memory and
\* on disk, and the counters are what they were when the request began.
C30_NoSpeculativeEntry ==
    /\ \A k \in DOMAIN cache :
          cache[k] # None => cache[k][1].symbols \in {SymbolsOf(c) : c \in Contents}
    /\ \A o \in OpSlots :
          FetchFailed(o)
              => /\ cache = ops[o].before[1].cache
                 /\ kbMemories = ops[o].before[1].kbMemories
                 /\ kbDisk = ops[o].before[1].kbDisk
                 /\ indexMetadata = ops[o].before[1].indexMetadata

\* a fetch that ended with RetriesExhausted for a key that had an entry
C30_Witness ==
    \E o \in OpSlots :
        /\ FetchFailed(o)
        /\ ops[o].data[1].fetch = "RetriesExhausted"
        /\ cache[KeyOf(o)] # None

\* ============================== the driver's tool calls (ApolloAgent, cont.)

\* this.allTools: each tool with the server it came from (tool._server)
AgentTools == Tools \cup {"sequentialthinking"}

ToolServer(toolName) ==
    IF toolName = "sequentialthinking" THEN "sequential-thinking" ELSE "serena"

\* executeMCPTool(toolName, args) up to its await: a tool that is not in
\* allTools is answered with {error} at once, any other is passed to
\* this.mcp.callTool(serverName, toolName, args), with no options.
executeMCPTool(c, toolName) ==
    /\ initialized
    /\ calls[c].pc = "idle"
    /\ IF toolName \notin AgentTools
       THEN /\ returned' = Some([method |-> "executeMCPTool",
                                 value |-> [error |-> <<"Unknown tool", toolName>>]])
            /\ UNCHANGED calls
       ELSE /\ calls' = [calls EXCEPT ![c] =
                  [IdleCall EXCEPT
                      !.pc = "attempt", !.serverName = ToolServer(toolName),
                      !.toolName = toolName, !.maxRetries = DefaultMaxRetries,
                      !.retryDelayMs = DefaultRetryDelayMs, !.attempt = 1]]
            /\ UNCHANGED returned
    /\ UNCHANGED <<tasks, taskIdCounter, currentPlan, thrown, saved, issued,
                   clients, serenaProjectPath, alive, initialized, cacheVars>>

\* callTool has settled: its result is formatted and returned; an error is
\* caught, shown as a warning and returned as {error: error.message}. Either
\* way the agent loop gets a tool result and goes on.
executeMCPToolSettled(c) ==
    LET outcome == calls[c].outcome[1] IN
    /\ calls[c].pc = "done"
    /\ calls' = [calls EXCEPT ![c] = IdleCall]
    /\ returned' = Some([method |-> "executeMCPTool",
                         value |-> IF outcome.kind = "result"
                                   THEN [text |-> outcome.message]
                                   ELSE [error |-> outcome]])
    /\ UNCHANGED <<tasks, taskIdCounter, currentPlan, thrown, saved, issued,
                   clients, serenaProjectPath, alive, initialized, cacheVars>>

AgentPlans ==
    {<<[name |-> "A", dependencies |-> {}]>>,
     <<[name |-> "A", dependencies |-> {}],
       [name |-> "B", dependencies |-> {1}]>>}

\* One task being processed: the plan is made, the agent loop calls tools and
\* reports progress, the user completes the current task, the loop may throw.
AgentNext ==
    \/ \E okSerena \in BOOLEAN, okSeq \in BOOLEAN : connectAll(okSerena, okSeq)
    \/ \E s \in Servers : transportClose(s)
    \/ \E L \in AgentPlans : planningPhase(L)
    \/ updateTaskProgress
    \/ completeCurrentTask(None)
    \/ \E e \in Errors : processTaskCatch(e)
    \/ \E c \in CallSlots, t \in AgentTools \cup {"no_such_tool"} : executeMCPTool(c, t)
    \/ \E c \in CallSlots : attemptStart(c)
    \/ \E c \in CallSlots : reconnected(c)
    \/ \E c \in CallSlots, e \in ConnectErrors : reconnectFailed(c, e)
    \/ \E c \in CallSlots : invokeReturned(c)
    \/ \E c \in CallSlots, e \in InvokeErrors : invokeFailed(c, e)
    \/ \E c \in CallSlots : wake(c)
    \/ \E c \in CallSlots : executeMCPToolSettled(c)

SpecAgent == Init /\ [][AgentNext]_vars

\* ---------------------------------------------------------------- C26

\* C26 (as claimed): when a tool call made while a task is in progress ends
\* with RetriesExhausted, that task is failed with the error recorded (and
\* the agent loop goes on with a tool result).
C26_ExhaustedCallFailsTask ==
    [][\A c \in CallSlots :
          LET i == InProgressFrom(tasks, 1) IN
          (/\ executeMCPToolSettled(c)
           /\ calls[c].outcome[1].kind = "RetriesExhausted"
           /\ i # 0)
              => /\ tasks'[i].status = "failed"
                 /\ tasks'[i].error # None]_vars

\* ---------------------------------------------------------------- C27

\* The tasks that are in-progress.
Running == {i \in 1..Len(tasks) : tasks[i].status = "in-progress"}

\* C27 (as claimed): under any sequence of updateTaskProgress and
\* completeCurrentTask calls of the driver, at most one task is in-progress.
C27_SingleActiveTask == Cardinality(Running) <= 1

\* ================================================= searchSymbols, called

\* A class with a method and a nested method, then a function:
\* Foo > (Bar, foo > Foo), fooBar
ForestFoo ==
    <<[name |-> "Foo", kind |-> "class",
       children |-> <<Leaf("Bar", "method"),
                      [name |-> "foo", kind |-> "method",
                       children |-> <<Leaf("Foo", "variable")>>]>>],
      Leaf("fooBar", "function")>>

SearchForests == {ForestABC, ForestPair, ForestFoo}

SearchQueries == {"", "A", "B", "b", "c", "f", "o", "foo", "Foo", "FOO", "bar", "Bar", "fooBar"}

\* The index after indexFile ran once for each file of `chosen`, every file
\* holding v1.
SearchIndexed(chosen) ==
    LET entries == [k \in Keys |->
                       IF chosen[k] = None THEN None
                       ELSE Some(symbolData(k, Some(Md5("v1")), chosen[k][1]))]
        hashes == [k \in Keys |-> IF chosen[k] = None THEN None ELSE Some(Some(Md5("v1")))]
        metadata == [filesIndexed |-> Cardinality({k \in Keys : chosen[k] # None}),
                     symbolsCount |-> CachedSymbols(entries, Keys)]
        memories == [n \in Names |->
                        IF metadata.filesIndexed = 0 THEN None
                        ELSE IF n = MetadataName THEN Some(Memory("symbols", Json(metadata)))
                        ELSE IF n = HashesName THEN Some(Memory("symbols", Json(hashes)))
                        ELSE LET k == CHOOSE k \in Keys : getMemoryName(k) = n IN
                             IF entries[k] = None THEN None
                             ELSE Some(Memory("symbols", Json(entries[k][1])))]
    IN
    /\ files = [k \in Keys |-> Some("v1")]
    /\ cache = entries
    /\ fileHashes = hashes
    /\ indexMetadata = metadata
    /\ kbMemories = memories
    /\ kbDisk = memories
    /\ ops = [o \in FanOutSlots |-> IdleOp]
    /\ registered = [k \in Keys |->
                        IF chosen[k] = None THEN None
                        ELSE Some([symbols |-> chosen[k][1], file |-> Some("v1")])]

SearchInit ==
    \E chosen \in [Keys -> {None} \cup {Some(f) : f \in SearchForests}] :
        SearchIndexed(chosen)

SearchStart == TaskInit /\ McpInit /\ SearchInit

\* The results of searchSymbols when cache.entries() yields the keys in
\* `order`: the matches of each entry, one entry after the other.
RECURSIVE searchSymbolsOver(_, _, _)
searchSymbolsOver(order, symbolName, options) ==
    IF order = <<>> THEN <<>>
    ELSE searchSymbolsIn(cache, Head(order), symbolName, options)
         \o searchSymbolsOver(Tail(order), symbolName, options)

\* The orders a Map holding these keys can yield them in (insertion order,
\* which the cache of the model does not keep).
EntryOrders ==
    LET held == {k \in DOMAIN cache : cache[k] # None} IN
    {order \in [1..Cardinality(held) -> held] :
        \A i, j \in 1..Cardinality(held) : i # j => order[i] # order[j]}

\* searchSymbols(symbolName, {kind, exactMatch})
searchSymbols(symbolName, options) ==
    /\ \E order \in EntryOrders :
          returned' = Some([method |-> "searchSymbols", symbolName |-> symbolName,
                            options |-> options,
                            value |-> searchSymbolsOver(order, symbolName, options)])
    /\ thrown' = None
    /\ UNCHANGED <<tasks, taskIdCounter, currentPlan, saved, issued>>
    /\ UNCHANGED <<mcpVars, cacheVars>>

SearchNext == \E q \in SearchQueries, opts \in SearchOptions : searchSymbols(q, opts)

SpecSearch == SearchStart /\ [][SearchNext]_vars

\* ---------------------------------------------------------------- C28

MaxDepth == 3
MaxWidth == 2

\* A node of a forest, named by where it is: the index of a root, then of a
\* child of it, and so on.
Places == UNION {[1..d -> 1..MaxWidth] : d \in 1..MaxDepth}

RECURSIVE NodeAt(_, _)
NodeAt(symbols, place) ==
    IF place[1] > Len(symbols) THEN None
    ELSE IF Len(place) = 1 THEN Some(symbols[place[1]])
    ELSE NodeAt(symbols[place[1]].children, Tail(place))

NodesOf(symbols) == {place \in Places : NodeAt(symbols, place) # None}

\* Pre-order: an ancestor before its descendants, and otherwise the node
\* under the earlier sibling first.
DocBefore(p, q) ==
    \/ Len(p) < Len(q) /\ SubSeq(q, 1, Len(p)) = p
    \/ \E i \in 1..Len(p) :
          /\ i <= Len(q)
          /\ SubSeq(p, 1, i - 1) = SubSeq(q, 1, i - 1)
          /\ p[i] < q[i]

\* The names from the root down to the node, with '/' between them.
QualifiedPath(symbols, place) ==
    [i \in 1..(2 * Len(place) - 1) |->
        IF i % 2 = 1 THEN NodeAt(symbols, SubSeq(place, 1, (i + 1) \div 2))[1].name
        ELSE "/"]

\* The nodes a search is to return from a forest.
Wanted(symbols, symbolName, options) ==
    {place \in NodesOf(symbols) :
        LET node == NodeAt(symbols, place)[1]
            name == toLowerCase(Chars(node.name))
            query == toLowerCase(Chars(symbolName)) IN
        /\ IF options.exactMatch THEN name = query ELSE IncludesChars(name, query)
        /\ options.kind # None => node.kind = options.kind[1]}

\* The places of a set, in pre-order.
InDocOrder(places) ==
    [j \in 1..Cardinality(places) |->
        CHOOSE p \in places : Cardinality({q \in places : DocBefore(q, p)}) = j - 1]

\* The results of a search that belong to one file, in the order returned.
ResultsIn(filePath) ==
    LET OfFile(r) == r.filePath = filePath IN
    SelectSeq(returned[1].value, OfFile)

\* C28: the matches of one file are returned in pre-order (a node before its
\* children, siblings in document order) and the namePath of each is the
\* names of its ancestors from the root down and then its own, joined by '/';
\* a root's namePath is its name, and in A > B > C a search for B gives A/B.
C28_PreOrderAndNamePath ==
    Answered("searchSymbols") =>
        \A k \in Keys :
            cache[k] # None =>
                LET symbols == cache[k][1].symbols
                    wanted == Wanted(symbols, returned[1].symbolName, returned[1].options)
                    places == InDocOrder(wanted)
                    results == ResultsIn(k) IN
                /\ Len(results) = Len(places)
                /\ \A j \in 1..Len(results) :
                      /\ results[j].name = NodeAt(symbols, places[j])[1].name
                      /\ results[j].namePath = QualifiedPath(symbols, places[j])
                      /\ Len(places[j]) = 1 => results[j].namePath = <<results[j].name>>
                /\ (symbols = ForestABC /\ returned[1].symbolName = "B"
                        /\ returned[1].options.kind = None)
                      => /\ Len(results) = 1
                         /\ results[1].namePath = <<"A", "/", "B">>

\* a search that returned a node, a node under its child and a later root
C28_Witness ==
    /\ Answered("searchSymbols")
    /\ \E k \in Keys :
          /\ cache[k] # None
          /\ \E i, j, l \in 1..Len(ResultsIn(k)) :
                /\ i < j /\ j < l
                /\ Len(ResultsIn(k)[i].namePath) = 1
                /\ Len(ResultsIn(k)[j].namePath) = 5
                /\ Len(ResultsIn(k)[l].namePath) = 1

\* ---------------------------------------------------------------- C29

\* The nodes of every cached entry a search is to return, each with its file.
WantedNodes(symbolName, options) ==
    UNION {{[filePath |-> k, place |-> p] :
                p \in Wanted(cache[k][1].symbols, symbolName, options)} :
           k \in {k \in Keys : cache[k] # None}}

\* C29: searchSymbols returns exactly the nodes of the cached entries whose
\* lowercased name equals the lowercased query (exactMatch) or contains it
\* (default), of the kind asked for when one is given: each such node once,
\* whether or not its parent matches, with its name as it is written.
C29_ExactlyTheMatchingNodes ==
    Answered("searchSymbols") =>
        LET value == returned[1].value
            wanted == WantedNodes(returned[1].symbolName, returned[1].options) IN
        /\ Len(value) = Cardinality(wanted)
        /\ \A w \in wanted :
              LET symbols == cache[w.filePath][1].symbols
                  node == NodeAt(symbols, w.place)[1] IN
              \E i \in 1..Len(value) :
                  /\ value[i].filePath = w.filePath
                  /\ value[i].namePath = QualifiedPath(symbols, w.place)
                  /\ value[i].name = node.name
                  /\ value[i].kind = node.kind
                  /\ value[i].children = node.children

\* an exact search by kind that returned a node whose parent does not match
\* and whose name is not written as the query is
C29_Witness ==
    /\ Answered("searchSymbols")
    /\ returned[1].options.exactMatch
    /\ returned[1].options.kind # None
    /\ \E i \in 1..Len(returned[1].value) :
          LET r == returned[1].value[i] IN
          /\ Len(r.namePath) = 3
          /\ r.name # returned[1].symbolName
          /\ toLowerCase(Chars(r.namePath[1])) # toLowerCase(Chars(returned[1].symbolName))

\* ---------------------------------------------------------------- C31

\* C31 (as claimed): after any createPlan or addTask, every dependency id of
\* every task in the list is the id of a task of the list (the tasks that
\* existed when the depending task was created are among them).
C31_DependenciesExist ==
    \A i \in 1..Len(tasks) :
        \A d \in tasks[i].dependencies :
            \E k \in 1..Len(tasks) : tasks[k].id = d

\* ---------------------------------------------------------------- C32

\* Registrations of one file, clear (in the first call) and lookups (in the
\* second), run together by the calls of one step.
ClearNext ==
    \/ \E o \in FanOutSlots : indexFile(o, SameKey, ForestFlat)
    \/ \E o \in FanOutSlots : indexFileHashed(o)
    \/ \E o \in FanOutSlots : indexFileStore(o)
    \/ \E o \in FanOutSlots : indexFilePersisted(o)
    \/ \E o \in FanOutSlots : metadataSaved(o)
    \/ \E o \in FanOutSlots : hashesSaved(o)
    \/ getSymbols(2, SameKey)
    \/ getSymbolsCompared(2)
    \/ clear(1)
    \/ clearUnlinked(1)
    \/ \E o \in FanOutSlots : opSettled(o)

SpecClear == Init /\ [][ClearNext]_vars

\* A clear has begun and has not returned.
ClearInFlight == \E p \in FanOutSlots : ops[p].kind = "clear" /\ ops[p].pc # "done"

\* C32 (as claimed): a lookup that ends while a clear is in flight is not
\* served an entry from memory that is already gone from the durable store;
\* and once every call has returned, each key's entry is in the cache, in the
\* knowledge base and on disk, or in none of them.
C32_ClearIsAtomic ==
    /\ [][\A o \in FanOutSlots :
             (ClearInFlight /\ getSymbolsCompared(o) /\ ops'[o].result # None)
                 => kbDisk[getMemoryName(KeyOf(o))] # None]_vars
    /\ []((\A o \in FanOutSlots : ops[o].kind = "idle")
            => \A k \in Keys :
                  /\ (cache[k] # None) = (kbDisk[getMemoryName(k)] # None)
                  /\ (cache[k] # None) = (kbMemories[getMemoryName(k)] # None))


\* C33: when an attempt fails with a retryable error while the endpoint's
\* connection record is gone, the reconnection of the endpoint is started
\* before the backoff sleep of that attempt begins: the call is never put to
\* sleep with the endpoint still unrecorded and no reconnection under way.
C33_ReconnectBeforeBackoff ==
    [][\A c \in CallSlots :
          (/\ calls[c].pc = "invoking"
           /\ calls[c].serverName \notin clients
           /\ calls'[c].pc = "sleeping")
              => \/ calls[c].serverName \in clients'
                 \/ \E d \in FanOutSlots :
                       /\ calls'[d].pc = "connecting"
                       /\ calls'[d].serverName = calls[c].serverName]_vars

\* ======================= one step of the agent loop (runAgentLoop, cont.)

\* call.function.arguments as the model wrote it: a JSON object, or text that
\* JSON.parse rejects with a SyntaxError (the empty string).
ArgumentTexts == {"{}", ""}

JsonParses(arguments) == arguments # ""

\* The tool calls of one response: the arguments text of each call.
Batches == [FanOutSlots -> ArgumentTexts]

\* A call of the batch whose executeToolFn promise has not settled.
InFlight(cs, c) == cs[c].pc \notin {"idle", "returned"}

\* toolCalls.map(async call => ...) inside Promise.all, run synchronously over
\* the whole batch: each callback parses its arguments and enters
\* executeMCPTool, which runs up to the first await inside callTool. A
\* callback whose JSON.parse throws is a rejected promise; the calls after it
\* are still started. Promise.all rejects on the first rejection, so the
\* await throws out of runAgentLoop before any started call has settled;
\* with every argument parsed the step has no outcome yet.
toolCallsDispatched(batch) ==
    /\ initialized
    /\ \A c \in FanOutSlots : ~InFlight(calls, c)
    /\ calls' = [c \in FanOutSlots |->
          IF JsonParses(batch[c])
          THEN [IdleCall EXCEPT
                   !.pc = "attempt", !.serverName = ToolServer("find_symbol"),
                   !.toolName = "find_symbol", !.maxRetries = DefaultMaxRetries,
                   !.retryDelayMs = DefaultRetryDelayMs, !.attempt = 1]
          ELSE IdleCall]
    /\ returned' = IF \A c \in FanOutSlots : JsonParses(batch[c])
                   THEN None
                   ELSE Some([method |-> "runAgentLoop",
                              value |-> [error |-> <<"SyntaxError">>]])
    /\ UNCHANGED <<tasks, taskIdCounter, currentPlan, thrown, saved, issued,
                   clients, serenaProjectPath, alive, initialized, cacheVars>>

\* executeMCPTool returns for one call of the batch: the result formatted, or
\* the caught error as {error: error.message}; the callback's promise is
\* fulfilled with it.
executeToolFnReturned(c) ==
    LET outcome == calls[c].outcome[1] IN
    /\ calls[c].pc = "done"
    /\ calls' = [calls EXCEPT ![c] =
          [@ EXCEPT !.pc = "returned",
              !.outcome = Some(IF outcome.kind = "result"
                               THEN [outcome EXCEPT !.kind = "text"]
                               ELSE [outcome EXCEPT !.kind = "error"])]]
    /\ UNCHANGED <<taskVars, clients, serenaProjectPath, alive, initialized, cacheVars>>

\* Promise.all fulfils: currentMessages.push(...formatToolResults(...)) and
\* the loop goes to its next iteration.
toolResultsPushed ==
    /\ returned = None
    /\ \A c \in FanOutSlots : calls[c].pc = "returned"
    /\ returned' = Some([method |-> "runAgentLoop",
                         value |-> [results |-> [c \in FanOutSlots |-> calls[c].outcome[1]]]])
    /\ calls' = [c \in FanOutSlots |-> IdleCall]
    /\ UNCHANGED <<tasks, taskIdCounter, currentPlan, thrown, saved, issued,
                   clients, serenaProjectPath, alive, initialized, cacheVars>>

StepNext ==
    \/ \E okSerena \in BOOLEAN, okSeq \in BOOLEAN : connectAll(okSerena, okSeq)
    \/ transportClose("serena")
    \/ \E batch \in Batches : toolCallsDispatched(batch)
    \/ \E c \in FanOutSlots : attemptStart(c)
    \/ \E c \in FanOutSlots : reconnected(c)
    \/ \E c \in FanOutSlots : reconnectFailed(c, <<"spawn", "ETIMEDOUT">>)
    \/ \E c \in FanOutSlots : invokeReturned(c)
    \/ \E c \in FanOutSlots : invokeFailed(c, <<"read", "ECONNRESET">>)
    \/ \E c \in FanOutSlots : wake(c)
    \/ \E c \in FanOutSlots : executeToolFnReturned(c)
    \/ toolResultsPushed

SpecStep == Init /\ [][StepNext]_vars

\* C34 (as claimed): when the outcome of a step is produced (the results are
\* appended, or the error is raised out of the loop), every call of the batch
\* has settled: none is still in flight.
C34_StepWaitsForEveryCall ==
    [][(/\ \/ \E batch \in Batches : toolCallsDispatched(batch)
           \/ toolResultsPushed
        /\ returned' # None)
          => \A c \in FanOutSlots : ~InFlight(calls', c)]_vars

\* ---------------------------------------------------------------- C35

\* The attempt of call c ends in this step by a failure, with attempts left.
AttemptFailsEarly(c) ==
    /\ calls[c].pc \in {"attempt", "connecting", "invoking"}
    /\ calls'[c].pc \in {"sleeping", "done"}
    /\ calls'[c].lastError # None
    /\ calls'[c].outcome # None => calls'[c].outcome[1].kind # "result"
    /\ calls[c].attempt < calls[c].maxRetries

\* C35 (as claimed): an attempt that ends by the per-call timeout, or because
\* the endpoint is not connected, or because its reconnection failed, while
\* attempts remain, is followed by the backoff sleep and a retry: the error
\* is not propagated at once.
C35_DisconnectedIsRetryable ==
    [][\A c \in CallSlots :
          (/\ AttemptFailsEarly(c)
           /\ \/ calls[c].pc = "connecting"
              \/ calls'[c].lastError[1] = NotConnected(calls[c].serverName)
              \/ Includes(calls'[c].lastError[1], "timeout"))
              => calls'[c].pc = "sleeping"]_vars

\* ---------------------------------------------------------------- C36

\* The tasks (by index) that the dependency ids of task i resolve to.
DepTasks(ts, i) == {FindTask(ts, d) : d \in ts[i].dependencies} \ {0}

\* The tasks reached from the set S along dependencies, in at most n rounds.
RECURSIVE DepClosure(_, _, _)
DepClosure(ts, S, n) ==
    IF n = 0 THEN S
    ELSE DepClosure(ts, S \cup UNION {DepTasks(ts, j) : j \in S}, n - 1)

\* Task i depends on itself, directly or through other tasks.
OnCycle(ts, i) == i \in DepClosure(ts, DepTasks(ts, i), Len(ts))

\* The driver, with tasks added to the plan one at a time as well.
CycleNext ==
    \/ DriverNext
    \/ \E t \in TaskInputs : addTask(t)

SpecCycle == Init /\ [][CycleNext]_vars

C37_HitOrOneCallThenRegistered ==
    /\ [][\A o \in OpSlots, c \in CallSlots :
             (getFileSymbolsLooked(o, c) /\ ops[o].result # None)
                 => /\ calls' = calls
                    /\ ops'[o].result = ops[o].result
                    /\ Finished(o, "getFileSymbols")']_vars
    /\ [][\A o \in OpSlots, c \in CallSlots :
             (\/ getFileSymbolsLooked(o, c) /\ ops[o].result = None
              \/ \E k \in FetchKeys : getFileSymbols(o, c, k, TRUE))
                 => /\ calls'[c].pc = "attempt"
                    /\ \A d \in CallSlots \ {c} : calls'[d] = calls[d]]_vars
    /\ [][\A o \in OpSlots, c \in CallSlots :
             ((\E p \in Payloads : fetchSettled(o, c, p))
                 /\ calls[c].outcome[1].kind = "result")
                 => /\ calls'[c] = IdleCall
                    /\ ops'[o].kind = "indexFile"
                    /\ ops'[o].filePath = ops[o].filePath]_vars

\* ======================================= restart (SymbolIndex.initialize)

\* JSON.parse of a string JSON.stringify made
JsonParse(json) == json[2]

\* data.filePath of an object that has no such property: cache.set(undefined, .)
Undefined == <<"undefined">>

\* The agent is started again over the same .apollo-knowledge directory.
\* KnowledgeBase.initialize reads every file of every category into
\* this.memories (loadAll). SymbolIndex.initialize parses the metadata and the
\* hash registry when it finds them, and loadCacheFromKB goes through the
\* memories of category symbols whose name starts with _symbol_: each content
\* is parsed and put in the cache under data.filePath. The memories are
\* visited in the order readdir listed the files, so of two objects put under
\* one key either may be the one that stays (`last`).
initialize(last) ==
    LET loaded == {n \in DOMAIN kbDisk :
                      /\ kbDisk[n] # None
                      /\ kbDisk[n][1].category = "symbols"
                      /\ n[1] = "_symbol_"}
        \* the hash registry parses to an object with a property per file
        \* path, kept here under `paths`
        data(n) == IF n = HashesName
                   THEN [paths |-> JsonParse(kbDisk[n][1].content)]
                   ELSE JsonParse(kbDisk[n][1].content)
        filePath(n) == IF "filePath" \in DOMAIN data(n)
                       THEN data(n).filePath ELSE Undefined
        keys == DOMAIN files \cup {filePath(n) : n \in loaded}
    IN
    /\ \A o \in DOMAIN ops : ops[o].kind = "idle"
    /\ IF loaded = {} THEN last = MetadataName ELSE last \in loaded
    /\ kbMemories' = kbDisk
    /\ indexMetadata' = IF kbDisk[MetadataName] # None
                        THEN JsonParse(kbDisk[MetadataName][1].content)
                        ELSE [filesIndexed |-> 0, symbolsCount |-> 0]
    /\ fileHashes' = IF kbDisk[HashesName] # None
                     THEN JsonParse(kbDisk[HashesName][1].content)
                     ELSE [k \in DOMAIN files |-> None]
    /\ cache' = [k \in keys |->
          IF last \in loaded /\ filePath(last) = k THEN Some(data(last))
          ELSE IF \E n \in loaded : filePath(n) = k
          THEN Some(data(CHOOSE n \in loaded : filePath(n) = k))
          ELSE None]
    /\ UNCHANGED <<files, kbDisk, ops, registered, taskVars, mcpVars>>

\* Registrations and invalidations, and the agent started again at any time
\* between them.
ReloadNext ==
    \/ \E o \in OpSlots, k \in Keys, f \in {ForestFlat, ForestPair} : indexFile(o, k, f)
    \/ \E o \in OpSlots : indexFileHashed(o)
    \/ \E o \in OpSlots : indexFileStore(o)
    \/ \E o \in OpSlots : indexFilePersisted(o)
    \/ \E o \in OpSlots : metadataSaved(o)
    \/ \E o \in OpSlots : hashesSaved(o)
    \/ \E o \in OpSlots, k \in Keys : invalidate(o, k)
    \/ \E o \in OpSlots : invalidateUnlinked(o)
    \/ \E o \in OpSlots : opSettled(o)
    \/ \E last \in Names : initialize(last)

SpecReload == Init /\ [][ReloadNext]_vars

\* C38 (as claimed): when the index is initialized again from the store that
\* register and invalidate operations left, the cache holds the entry of
\* every key that was registered, with the same fingerprint and symbols, and
\* no other entry; the metadata and hash-registry records are not among the
\* entries, so every entry has the symbols getStats and searchSymbols go
\* through.
C38_ReloadRestoresEntries ==
    [][\A last \in Names :
          initialize(last)
              => /\ \A k \in Keys :
                       cache[k] # None
                           => /\ cache'[k] # None
                              /\ cache'[k][1].hash = cache[k][1].hash
                              /\ cache'[k][1].symbols = cache[k][1].symbols
                 /\ \A k \in DOMAIN cache' :
                       cache'[k] # None
                           => /\ k \in DOMAIN cache
                              /\ cache[k] # None
                              /\ "symbols" \in DOMAIN cache'[k][1]]_vars

\* ================================== the driver working through one plan

\* Plans of independent tasks and of tasks that wait for two others, besides
\* the planner's.
ProgressPlans ==
    PlanInputs \cup
    {<<[name |-> "A", dependencies |-> {}],
       [name |-> "B", dependencies |-> {}],
       [name |-> "C", dependencies |-> {}]>>,
     <<[name |-> "A", dependencies |-> {}],
       [name |-> "B", dependencies |-> {}],
       [name |-> "C", dependencies |-> {1, 2}]>>,
     <<[name |-> "A", dependencies |-> {3}],
       [name |-> "B", dependencies |-> {}],
       [name |-> "C", dependencies |-> {}]>>}

\* One plan is made in a new manager; from then on the driver takes
\* getNextTask and starts it (updateTaskProgress), and completes the task in
\* progress (completeCurrentTask). No task is failed or skipped.
ProgressNext ==
    \/ \E L \in ProgressPlans : currentPlan = None /\ planningPhase(L)
    \/ updateTaskProgress
    \/ \E r \in {None} \cup Results : completeCurrentTask(r)

\* The driver keeps going: a task that can be started is started, a task in
\* progress is completed.
SpecProgress ==
    /\ Init
    /\ [][ProgressNext]_vars
    /\ WF_vars(updateTaskProgress)
    /\ WF_vars(\E r \in {None} \cup Results : completeCurrentTask(r))

\* Every dependency id is the id of a task of the list, and no task depends
\* on itself directly or through others.
WellFormedPlan ==
    /\ currentPlan # None
    /\ \A i \in 1..Len(tasks) :
          /\ \A d \in tasks[i].dependencies : FindTask(tasks, d) # 0
          /\ ~OnCycle(tasks, i)

AllCompleted == \A i \in 1..Len(tasks) : tasks[i].status = "completed"

\* C39: with acyclic dependencies that all name tasks of the list, and a
\* driver that keeps starting what getNextTask returns and completing what is
\* in progress, every task is eventually completed and isComplete() becomes
\* true; until then getNextTask returns nothing only while a task is
\* in-progress.
C39_ProgressUnderFairness ==
    /\ WellFormedPlan ~> (AllCompleted /\ isComplete)
    /\ []((WellFormedPlan /\ ~isComplete /\ getNextTask = 0) => Running # {})

\* a plan of three tasks, the third waiting for the other two, is done
C39_Witness ==
    /\ WellFormedPlan
    /\ Len(tasks) = 3
    /\ tasks[3].dependencies = {1, 2}
    /\ AllCompleted /\ isComplete

\* ---------------------------------------------------------------- C40

\* isConnected(name): this.clients.has(name)
isConnected(name) == name \in clients

\* C40 (as claimed): in every state reached by transport closes and the
\* reconnections inside callTool, isConnected(endpoint) holds only while the
\* transport of the recorded client is open, and the record of an endpoint is
\* removed only when its transport has closed.
C40_RecordReflectsLiveConnection ==
    /\ [](\A s \in Servers : isConnected(s) => s \in alive)
    /\ [][\A s \in Servers :
             (isConnected(s) /\ ~isConnected(s)') => s \notin alive']_vars

====
